---- MODULE Spec2Model ----
(***************************************************************************)
(* Model of obsidian-tasks-mcp (src/main.ts): the task line parser, the    *)
(* markdown builder and the MCP tool handlers that rewrite vault files.    *)
(*                                                                         *)
(* A string is a sequence of characters.  An ASCII character is the        *)
(* one-character string itself; each emoji code point of the source is one *)
(* named token (the regular expressions that read them carry the u flag,   *)
(* so one code point is one character).                                    *)
(***************************************************************************)
EXTENDS Integers, Sequences, FiniteSets, TLC

VARIABLES
    vault,      \* path -> content of the file; a path outside the domain has no file
    call,       \* the last tools/call request: [name, args], or NoCall
    resp,       \* the response to it
    tasks,      \* the payload of the last list_tasks response, or NotListed
    written,    \* history: the task lines the tool calls have written so far
    nCalls,     \* tools/call requests handled so far
    tasksApi,   \* the Tasks plugin is installed and offers its apiV1
    inflight,   \* slot -> the tools/call request suspended at an await, or Idle
    server,     \* this.server: 0 for null, else the index in servers of the http.Server
    servers,    \* every http.Server created so far: "pending", "listening", "failed", "closed"
    timer,      \* the setTimeout of onload is armed
    lifecycle   \* "new", "loaded" (after onload), "unloaded" (after onunload)

\* the state of the plugin object outside the tool handlers
pluginVars == <<server, servers, timer, lifecycle>>

vars == <<vault, call, resp, tasks, written, nCalls, tasksApi, inflight,
          server, servers, timer, lifecycle>>

(***************************************************************************)
(* Characters                                                              *)
(***************************************************************************)
GDue == "U+1F4C5"       \* calendar, the due glyph written by the builder
GCal == "U+1F5D3"       \* spiral calendar, second due glyph
GVs == "U+FE0F"         \* variation selector 16, third member of the due class
GSched == "U+23F3"      \* hourglass
GStart == "U+1F6EB"     \* airplane departure
GCreated == "U+2795"    \* heavy plus
GRec == "U+1F501"       \* repeat
GHigh == "U+23EB"       \* high; twice in a row: highest
GMed == "U+1F53C"       \* medium
GLow == "U+1F53D"       \* low
GLowest == "U+23EC"     \* lowest
TAB == "\t"
NL == "\n"
EOS == "<eos>"          \* what At answers outside the string

Digits == {"0", "1", "2", "3", "4", "5", "6", "7", "8", "9"}

\* \s of a JavaScript regular expression, on the characters of the model
\* the characters of a string literal, as a sequence
Chars(str) == [i \in 1..Len(str) |-> SubSeq(str, i, i)]

\* the elements of a sequence
Range(s) == {s[i] : i \in 1..Len(s)}

IsSpace(c) == c \in {" ", TAB, NL}

IsDigit(c) == c \in Digits

At(s, i) == IF i >= 1 /\ i <= Len(s) THEN s[i] ELSE EOS

\* s.substring(i - 1): the characters from position i (1-based) on
From(s, i) == IF i > Len(s) THEN <<>> ELSE SubSeq(s, i, Len(s))

RECURSIVE SkipSpaces(_, _)
\* first position >= i of s that holds no \s character (Len(s) + 1 if none)
SkipSpaces(s, i) ==
    IF i <= Len(s) /\ IsSpace(s[i]) THEN SkipSpaces(s, i + 1) ELSE i

RECURSIVE SkipSpacesBack(_, _)
\* last position <= i of s that holds no \s character (0 if none)
SkipSpacesBack(s, i) ==
    IF i >= 1 /\ IsSpace(s[i]) THEN SkipSpacesBack(s, i - 1) ELSE i

\* String.prototype.trim
Trim(s) ==
    LET a == SkipSpaces(s, 1)
        b == SkipSpacesBack(s, Len(s))
    IN  IF a > b THEN <<>> ELSE SubSeq(s, a, b)

RECURSIVE Join(_, _)
\* Array.prototype.join(sep)
Join(ss, sep) ==
    IF Len(ss) = 0 THEN <<>>
    ELSE IF Len(ss) = 1 THEN ss[1]
    ELSE ss[1] \o sep \o Join(Tail(ss), sep)

RECURSIVE SplitFrom(_, _, _)
\* the pieces of s from position i on, cut at every character c
SplitFrom(s, c, i) ==
    LET RECURSIVE Stop(_)
        Stop(j) == IF j <= Len(s) /\ s[j] # c THEN Stop(j + 1) ELSE j
        e == Stop(i)
        piece == IF e > i THEN SubSeq(s, i, e - 1) ELSE <<>>
    IN  IF e > Len(s) THEN <<piece>> ELSE <<piece>> \o SplitFrom(s, c, e + 1)

\* String.prototype.split(c) for a one-character separator
Split(s, c) == SplitFrom(s, c, 1)

\* the decimal digits of a natural number, as template literals print it
RECURSIVE ToDecimal(_)
ToDecimal(n) ==
    LET d == <<"0", "1", "2", "3", "4", "5", "6", "7", "8", "9">>
    IN  IF n < 10 THEN <<d[n + 1]>> ELSE ToDecimal(n \div 10) \o <<d[(n % 10) + 1]>>

(***************************************************************************)
(* Regular expressions of TaskParser                                       *)
(***************************************************************************)
Undefined == <<"<undefined>">>      \* a string-valued field that is not set
UndefinedTags == << <<"<undefined>">> >>   \* an omitted tags argument
Null == [null |-> TRUE]             \* parseTaskLine's "not a task"

\* \d{4}-\d{2}-\d{2} matches at position i of s
IsDateAt(s, i) ==
    /\ i >= 1
    /\ i + 9 <= Len(s)
    /\ \A k \in {0, 1, 2, 3, 5, 6, 8, 9} : IsDigit(s[i + k])
    /\ s[i + 4] = "-"
    /\ s[i + 7] = "-"

DueGlyphs == {GDue, GCal, GVs}      \* the character class [calendar, spiral calendar + VS16]

\* where the date of  <glyph>\s?(\d{4}-\d{2}-\d{2})  starts when the pattern
\* matches at position i of s; 0 when it does not match there
GlyphDateStart(glyphs, s, i) ==
    IF At(s, i) \notin glyphs THEN 0
    ELSE IF IsSpace(At(s, i + 1)) /\ IsDateAt(s, i + 2) THEN i + 2
    ELSE IF IsDateAt(s, i + 1) THEN i + 1
    ELSE 0

RECURSIVE FindGlyphDateLast(_, _, _)
\* a search that answers the rightmost match instead of the leftmost
FindGlyphDateLast(glyphs, s, i) ==
    IF i > Len(s) THEN 0
    ELSE LET r == FindGlyphDateLast(glyphs, s, i + 1)
         IN  IF r > 0 THEN r
             ELSE IF GlyphDateStart(glyphs, s, i) > 0 THEN i ELSE 0

RECURSIVE FindGlyphDate(_, _, _)
\* String.prototype.match without the g flag: the leftmost match at or after i
FindGlyphDate(glyphs, s, i) ==
    IF i > Len(s) THEN 0
    ELSE IF GlyphDateStart(glyphs, s, i) > 0 THEN i
    ELSE FindGlyphDate(glyphs, s, i + 1)

\* capture group 1 of the leftmost match of a date pattern, or Undefined
MatchDate(glyphs, s) ==
    LET i == FindGlyphDate(glyphs, s, 1)
    IN  IF i = 0 THEN Undefined
        ELSE LET d == GlyphDateStart(glyphs, s, i) IN SubSeq(s, d, d + 9)

RECURSIVE FindChar(_, _, _)
\* the leftmost position >= i of s holding a character of cs, 0 if none
FindChar(cs, s, i) ==
    IF i > Len(s) THEN 0
    ELSE IF s[i] \in cs THEN i
    ELSE FindChar(cs, s, i + 1)

RECURSIVE NonSpaceEnd(_, _)
\* the position after the run of non-\s characters that starts at i
NonSpaceEnd(s, i) ==
    IF i <= Len(s) /\ ~IsSpace(s[i]) THEN NonSpaceEnd(s, i + 1) ELSE i

\* recurrenceRegex  <repeat>\s?(.*?)(?=(\s|$)) : capture group 1 of the
\* leftmost match, or Undefined.  The lazy group stops before the first \s.
MatchRecurrence(s) ==
    LET i == FindChar({GRec}, s, 1)
        j == IF IsSpace(At(s, i + 1)) THEN i + 2 ELSE i + 1
        e == NonSpaceEnd(s, j)
    IN  IF i = 0 THEN Undefined
        ELSE IF e > j THEN SubSeq(s, j, e - 1) ELSE <<>>

PriorityGlyphs == {GHigh, GMed, GLow, GLowest}

\* priorityMatches[0] of  /HH|H|M|L|LL/g  mapped to Task['priority']
MatchPriority(s) ==
    LET i == FindChar(PriorityGlyphs, s, 1)
    IN  IF i = 0 THEN "undefined"
        ELSE IF s[i] = GHigh /\ At(s, i + 1) = GHigh THEN "highest"
        ELSE IF s[i] = GHigh THEN "high"
        ELSE IF s[i] = GMed THEN "medium"
        ELSE IF s[i] = GLow THEN "low"
        ELSE "lowest"

\* the characters hashTagsRegex excludes from a tag:  !@#$%^&*(),.?":{}|<> and space
TagStop == {" ", "!", "@", "#", "$", "%", "^", "&", "*", "(", ")", ",", ".",
            "?", "\"", ":", "{", "}", "|", "<", ">"}

RECURSIVE TagBodyEnd(_, _)
\* the position after the run of tag characters that starts at i
TagBodyEnd(s, i) ==
    IF i <= Len(s) /\ s[i] \notin TagStop THEN TagBodyEnd(s, i + 1) ELSE i

\* the position after the match of  (^|\s)#[^ !@#...]+  at position i, 0 if none
HashTagEnd(s, i) ==
    LET b == IF i = 1 /\ At(s, 1) = "#" THEN 2
             ELSE IF IsSpace(At(s, i)) /\ At(s, i + 1) = "#" THEN i + 2
             ELSE 0
        e == TagBodyEnd(s, b)
    IN  IF b = 0 \/ e = b THEN 0 ELSE e

RECURSIVE MatchHashTags(_, _)
\* description.match(hashTagsRegex): every match from position i on, in order
MatchHashTags(s, i) ==
    IF i > Len(s) THEN <<>>
    ELSE LET e == HashTagEnd(s, i)
         IN  IF e = 0 THEN MatchHashTags(s, i + 1)
             ELSE <<SubSeq(s, i, e - 1)>> \o MatchHashTags(s, e)

RECURSIVE TrimAll(_)
\* .map(tag => tag.trim()).filter(tag => tag.length > 0)
TrimAll(ms) ==
    IF Len(ms) = 0 THEN <<>>
    ELSE LET t == Trim(Head(ms))
         IN  (IF Len(t) > 0 THEN <<t>> ELSE <<>>) \o TrimAll(Tail(ms))

(***************************************************************************)
(* update_task: stripping the metadata of the current description         *)
(***************************************************************************)
\* the position after the match at position i of the pattern pat that
\* update_task removes, 0 when it does not match there
StripMatchEnd(pat, s, i) ==
    CASE pat = "due" ->
           LET d == GlyphDateStart(DueGlyphs, s, i) IN IF d > 0 THEN d + 10 ELSE 0
      [] pat = "scheduled" ->
           LET d == GlyphDateStart({GSched}, s, i) IN IF d > 0 THEN d + 10 ELSE 0
      [] pat = "start" ->
           LET d == GlyphDateStart({GStart}, s, i) IN IF d > 0 THEN d + 10 ELSE 0
      [] pat = "created" ->
           LET d == GlyphDateStart({GCreated}, s, i) IN IF d > 0 THEN d + 10 ELSE 0
      [] pat = "recurrence" ->       \* <repeat>\s?[^\s]*
           IF At(s, i) # GRec THEN 0
           ELSE NonSpaceEnd(s, IF IsSpace(At(s, i + 1)) THEN i + 2 ELSE i + 1)
      [] pat = "priority" ->         \* HH|H|M|L|LL
           IF At(s, i) \notin PriorityGlyphs THEN 0
           ELSE IF s[i] = GHigh /\ At(s, i + 1) = GHigh THEN i + 2
           ELSE i + 1
      [] pat = "tags" ->             \* (^|\s)#[^\s]+
           LET b == IF i = 1 /\ At(s, 1) = "#" THEN 2
                    ELSE IF IsSpace(At(s, i)) /\ At(s, i + 1) = "#" THEN i + 2
                    ELSE 0
               e == NonSpaceEnd(s, b)
           IN  IF b = 0 \/ e = b THEN 0 ELSE e

RECURSIVE RemoveAll(_, _, _)
\* s.replace(/pat/g, '') from position i on
RemoveAll(pat, s, i) ==
    IF i > Len(s) THEN <<>>
    ELSE LET e == StripMatchEnd(pat, s, i)
         IN  IF e = 0 THEN <<s[i]>> \o RemoveAll(pat, s, i + 1)
             ELSE RemoveAll(pat, s, e)

\* the replace chain of update_task followed by trim()
StripMetadata(description) ==
    LET s1 == RemoveAll("due", description, 1)
        s2 == RemoveAll("scheduled", s1, 1)
        s3 == RemoveAll("start", s2, 1)
        s4 == RemoveAll("created", s3, 1)
        s5 == RemoveAll("recurrence", s4, 1)
        s6 == RemoveAll("priority", s5, 1)
        s7 == RemoveAll("tags", s6, 1)
    IN  Trim(s7)

IndentChars == {" ", TAB, NL, ">"}      \* [\s\t>]
BulletChars == {"-", "*", "+"}          \* [-*+]

RECURSIVE SkipChars(_, _, _)
\* the position after the run of characters of cs that starts at i
SkipChars(cs, s, i) ==
    IF i <= Len(s) /\ s[i] \in cs THEN SkipChars(cs, s, i + 1) ELSE i

\* ^([\s\t>]*)([-*+]|[0-9]+[.)]) : the position after the list marker, with
\* the position where the marker starts; after = 0 when there is no match
MarkerMatch(line) ==
    LET m == SkipChars(IndentChars, line, 1)
        d == SkipChars(Digits, line, m)
        after == IF At(line, m) \in BulletChars THEN m + 1
                 ELSE IF d > m /\ At(line, d) \in {".", ")"} THEN d + 1
                 ELSE 0
    IN  [marker |-> m, after |-> after]

\* (.*) of taskRegex from position c: the rest of the line up to a line break
RestOfLine(line, c) ==
    LET n == FindChar({NL}, line, c)
        e == IF n = 0 THEN Len(line) + 1 ELSE n
    IN  IF e > c THEN SubSeq(line, c, e - 1) ELSE <<>>

\* a match of the box that asks for no space after the marker ( *\[ for  +\[ )
BoxMatchNoSpace(line, mm, b) ==
    IF /\ mm.after > 0
       /\ At(line, b) = "["
       /\ At(line, b + 1) \notin {NL, EOS}
       /\ At(line, b + 2) = "]"
    THEN [indent |-> SubSeq(line, 1, mm.marker - 1),
          marker |-> SubSeq(line, mm.marker, mm.after - 1),
          status |-> line[b + 1],
          content |-> RestOfLine(line, SkipChars({" "}, line, b + 3))]
    ELSE Null

\* " +\[(.)\] *(.*)" of taskRegex after the marker mm, b the position after
\* the spaces that follow the marker
BoxMatch(line, mm, b) ==
    IF /\ mm.after > 0
       /\ b > mm.after
       /\ At(line, b) = "["
       /\ At(line, b + 1) \notin {NL, EOS}
       /\ At(line, b + 2) = "]"
    THEN [indent |-> SubSeq(line, 1, mm.marker - 1),
          marker |-> SubSeq(line, mm.marker, mm.after - 1),
          status |-> line[b + 1],
          content |-> RestOfLine(line, SkipChars({" "}, line, b + 3))]
    ELSE Null

\* the rest of taskRegex after the marker mm
AfterMarkerMatch(line, mm) ==
    IF mm.after = 0 THEN Null
    ELSE BoxMatch(line, mm, SkipChars({" "}, line, mm.after))

\* taskRegex  ^([\s\t>]*)([-*+]|[0-9]+[.)]) +\[(.)\] *(.*)
\* the groups of the match, or Null
TaskRegexMatch(line) == AfterMarkerMatch(line, MarkerMatch(line))

\* a status mapping that forgets the capital X
StatusOfLowerOnly(statusChar) ==
    IF statusChar = "x" THEN "complete"
    ELSE IF statusChar = "-" THEN "cancelled"
    ELSE IF statusChar = "/" THEN "in_progress"
    ELSE "incomplete"

\* the status a status character stands for
StatusOf(statusChar) ==
    IF statusChar \in {"x", "X"} THEN "complete"
    ELSE IF statusChar = "-" THEN "cancelled"
    ELSE IF statusChar = "/" THEN "in_progress"
    ELSE "incomplete"

\* a description from which the parser itself removes the metadata
DescriptionStripped(content) == StripMetadata(Trim(content))

\* the description parseTaskLine reports: match[4].trim()
DescriptionOf(content) == Trim(content)

\* the task parseTaskLine returns for a line whose description is description
\* and whose status character is statusSymbol
TaskOf(description, statusSymbol, line, filePath, lineNumber) ==
    [id |-> filePath \o <<":">> \o ToDecimal(lineNumber),
     description |-> description,
     status |-> StatusOf(statusSymbol),
     statusSymbol |-> statusSymbol,
     filePath |-> filePath,
     lineNumber |-> lineNumber,
     tags |-> TrimAll(MatchHashTags(description, 1)),
     dueDate |-> MatchDate(DueGlyphs, description),
     scheduledDate |-> MatchDate({GSched}, description),
     startDate |-> MatchDate({GStart}, description),
     createdDate |-> MatchDate({GCreated}, description),
     priority |-> MatchPriority(description),
     recurrence |-> MatchRecurrence(description),
     originalMarkdown |-> line]

\* parseTaskLine after line.match(taskRegex) answered match
ParseMatch(match, line, filePath, lineNumber) ==
    IF match = Null THEN Null
    ELSE TaskOf(DescriptionOf(match.content), match.status, line, filePath, lineNumber)

\* TaskParser.parseTaskLine
parseTaskLine(line, filePath, lineNumber) ==
    ParseMatch(TaskRegexMatch(line), line, filePath, lineNumber)

(***************************************************************************)
(* Markdown builder                                                        *)
(***************************************************************************)
\* JavaScript truthiness of an optional string argument
Truthy(x) == x # Undefined /\ x # <<>>

\* priorityEmojis[priority], <<>> when the key is not in the table
PriorityEmojis(priority) ==
    CASE priority = "highest" -> <<GHigh, GHigh>>
      [] priority = "high" -> <<GHigh>>
      [] priority = "medium" -> <<GMed>>
      [] priority = "low" -> <<GLow>>
      [] priority = "lowest" -> <<GLowest>>
      [] OTHER -> <<>>

\* a formatting that leaves every tag as it was given
FormatTagAsGiven(tag) == tag

\* tag.startsWith('#') ? tag : `#${tag}`
FormatTag(tag) == IF At(tag, 1) = "#" THEN tag ELSE <<"#">> \o tag

\* tags.map(FormatTag)
FormatTags(tags) == [i \in 1..Len(tags) |-> FormatTag(tags[i])]

\* the tail both builders append to `- [s] description`: priority,
\* recurrence, start, scheduled, due, tags
AppendPriority(task, priority) ==
    IF priority \notin {"undefined", ""} /\ PriorityEmojis(priority) # <<>>
    THEN task \o <<" ">> \o PriorityEmojis(priority) ELSE task

AppendRecurrence(task, recurrence) ==
    IF Truthy(recurrence) THEN task \o <<" ", GRec, " ">> \o recurrence ELSE task

AppendDate(task, glyph, date) ==
    IF Truthy(date) THEN task \o <<" ", glyph, " ">> \o date ELSE task

AppendTags(task, tags) ==
    IF tags # UndefinedTags /\ Len(tags) > 0
    THEN task \o <<" ">> \o Join(FormatTags(tags), <<" ">>) ELSE task

\* a builder that writes the due date before the start and scheduled dates
buildTaskMarkdownDueFirst(args) ==
    AppendTags(
      AppendDate(
        AppendDate(
          AppendDate(
            AppendRecurrence(
              AppendPriority(<<"-", " ", "[", " ", "]", " ">> \o args.description,
                             args.priority),
              args.recurrence),
            GDue, args.dueDate),
          GStart, args.startDate),
        GSched, args.scheduledDate),
      args.tags)

\* TasksMcpPlugin.buildTaskMarkdown
buildTaskMarkdown(args) ==
    LET t0 == <<"-", " ", "[", " ", "]", " ">> \o args.description
        t1 == AppendPriority(t0, args.priority)
        t2 == AppendRecurrence(t1, args.recurrence)
        t3 == AppendDate(t2, GStart, args.startDate)
        t4 == AppendDate(t3, GSched, args.scheduledDate)
        t5 == AppendDate(t4, GDue, args.dueDate)
    IN  AppendTags(t5, args.tags)

(***************************************************************************)
(* update_task: merging the arguments into the current task               *)
(***************************************************************************)
\* statusMap[args.status] || statusChar
StatusChar(status, statusChar) ==
    CASE status = "incomplete" -> " "
      [] status = "complete" -> "x"
      [] status = "cancelled" -> "-"
      [] status = "in_progress" -> "/"
      [] OTHER -> statusChar

\* args.x !== undefined ? (args.x === '' ? undefined : args.x) : current
Override(arg, current) ==
    IF arg # Undefined THEN (IF arg = <<>> THEN Undefined ELSE arg) ELSE current

\* the same for priority, whose removal value is 'none'
OverridePriority(arg, current) ==
    IF arg # "undefined" THEN (IF arg = "none" THEN "undefined" ELSE arg) ELSE current

\* an override that adds the given tags to the current ones
OverrideTagsMerging(arg, current) == IF arg # UndefinedTags THEN current \o arg ELSE current

\* args.tags !== undefined ? args.tags : currentTask.tags
OverrideTags(arg, current) == IF arg # UndefinedTags THEN arg ELSE current

\* args.description !== undefined ? args.description : <stripped current description>
NewDescription(arg, current) ==
    IF arg # Undefined THEN arg ELSE StripMetadata(current)

\* indentMatch ? indentMatch[1] : ''
IndentOf(mm, currentLine) ==
    IF mm.after > 0 THEN SubSeq(currentLine, 1, mm.marker - 1) ELSE <<>>

\* a marker that is always the dash
MarkerAlwaysDash(mm, currentLine) == <<"-">>

\* indentMatch ? indentMatch[2] : '-'
MarkerOf(mm, currentLine) ==
    IF mm.after > 0 THEN SubSeq(currentLine, mm.marker, mm.after - 1) ELSE <<"-">>

\* the line update_task writes for currentLine, a task line, and args
UpdatedMarkdown(currentLine, currentTask, args) ==
    LET newDescription == NewDescription(args.description, currentTask.description)
        statusChar == IF args.status # "undefined"
                      THEN StatusChar(args.status, currentTask.statusSymbol)
                      ELSE currentTask.statusSymbol
        dueDate == Override(args.dueDate, currentTask.dueDate)
        scheduledDate == Override(args.scheduledDate, currentTask.scheduledDate)
        startDate == Override(args.startDate, currentTask.startDate)
        priority == OverridePriority(args.priority, currentTask.priority)
        tags == OverrideTags(args.tags, currentTask.tags)
        recurrence == Override(args.recurrence, currentTask.recurrence)
        mm == MarkerMatch(currentLine)
        indent == IndentOf(mm, currentLine)
        marker == MarkerOf(mm, currentLine)
        t0 == indent \o marker \o <<" ", "[", statusChar, "]", " ">> \o newDescription
        t1 == AppendPriority(t0, priority)
        t2 == AppendRecurrence(t1, recurrence)
        t3 == AppendDate(t2, GStart, startDate)
        t4 == AppendDate(t3, GSched, scheduledDate)
        t5 == AppendDate(t4, GDue, dueDate)
    IN  AppendTags(t5, tags)

(***************************************************************************)
(* The vault and the tool handlers                                         *)
(***************************************************************************)
NoCall == [name |-> "none"]
NoResponse == [kind |-> "none"]
NotListed == <<Null>>               \* no list_tasks response yet
NoApi == <<"<no api>">>             \* getTasksApi() answered null

\* the local date the clock reads: year, month and day padded to two digits
Today == <<"2", "0", "2", "5", "-", "0", "3", "-", "0", "2">>

\* getDailyNotePath with the default folder and format
getDailyNotePath ==
    <<"D", "a", "i", "l", "y", " ", "N", "o", "t", "e", "s", "/">> \o Today
        \o <<".", "m", "d">>

\* errorResponse(id, message); code names the message
ErrorResponse(code) == [kind |-> "error", error |-> code]

\* a tool result carrying {success: true, filePath, lineNumber, oldTask, newTask}
Result(filePath, lineNumber, oldTask, newTask) ==
    [kind |-> "result", filePath |-> filePath, lineNumber |-> lineNumber,
     oldTask |-> oldTask, newTask |-> newTask]

RECURSIVE FirstIndexOf(_, _, _)
\* s.indexOf(c) in s up to position i, as a 1-based position; 0 for -1
FirstIndexOf(s, c, i) ==
    IF i < 1 THEN 0
    ELSE IF FirstIndexOf(s, c, i - 1) # 0 THEN FirstIndexOf(s, c, i - 1)
    ELSE IF s[i] = c THEN i ELSE 0

RECURSIVE LastIndexOf(_, _, _)
\* s.lastIndexOf(c) searched from position i down, as a 1-based position; 0 for -1
LastIndexOf(s, c, i) ==
    IF i < 1 THEN 0 ELSE IF s[i] = c THEN i ELSE LastIndexOf(s, c, i - 1)

RECURSIVE DigitsValue(_, _, _)
\* the value of the run of decimal digits of s that starts at i, after acc
DigitsValue(s, i, acc) ==
    IF i <= Len(s) /\ IsDigit(s[i])
    THEN DigitsValue(s, i + 1,
           acc * 10 + (CHOOSE d \in 0..9 : ToDecimal(d) = <<s[i]>>))
    ELSE acc

\* parseInt(s): leading white space, an optional sign, the longest run of
\* decimal digits; NaN when there is no digit
ParseInt(s) ==
    LET a == SkipSpaces(s, 1)
        b == IF At(s, a) \in {"+", "-"} THEN a + 1 ELSE a
        v == DigitsValue(s, b, 0)
    IN  IF ~IsDigit(At(s, b)) THEN [nan |-> TRUE, value |-> 0]
        ELSE [nan |-> FALSE, value |-> IF At(s, a) = "-" THEN 0 - v ELSE v]

\* TasksMcpPlugin.parseTaskId; error # "" stands for the Error it throws
parseTaskId(id) ==
    LET lastColon == LastIndexOf(id, ":", Len(id))
        n == ParseInt(From(id, lastColon + 1))
    IN  IF lastColon = 0 THEN [error |-> "Invalid task ID format", filePath |-> <<>>, lineNumber |-> 0]
        ELSE IF n.nan THEN [error |-> "Invalid line number in task ID", filePath |-> <<>>, lineNumber |-> 0]
        ELSE [error |-> "", filePath |-> SubSeq(id, 1, lastColon - 1), lineNumber |-> n.value]

\* a lineNumber argument is <<>> when omitted and <<n>> when given
TruthyNumber(x) == Len(x) = 1 /\ x[1] # 0

\* "Resolve filePath and lineNumber" of toggle_task, update_task, remove_task
ResolveAddress(args) ==
    IF Truthy(args.taskId) THEN parseTaskId(args.taskId)
    ELSE IF Truthy(args.filePath) /\ TruthyNumber(args.lineNumber)
    THEN [error |-> "", filePath |-> args.filePath, lineNumber |-> args.lineNumber[1]]
    ELSE [error |-> "Either taskId or both filePath and lineNumber are required",
          filePath |-> <<>>, lineNumber |-> 0]

\* vault.getAbstractFileByPath(filePath) is a TFile
FileExists(v, filePath) == filePath \in DOMAIN v

\* a replacement that loses the lines after the replaced one
ReplaceLineTruncating(lines, lineNumber, newTaskMarkdown) ==
    SubSeq(lines, 1, lineNumber - 1) \o <<newTaskMarkdown>>

\* lines with lines[lineNumber - 1] = newTaskMarkdown
ReplaceLine(lines, lineNumber, newTaskMarkdown) ==
    [i \in 1..Len(lines) |-> IF i = lineNumber THEN newTaskMarkdown ELSE lines[i]]

\* TasksMcpPlugin.updateTaskInFile: the vault and the response after it
updateTaskInFile(v, filePath, lineNumber, newTaskMarkdown) ==
    IF ~FileExists(v, filePath)
    THEN [vault |-> v, resp |-> ErrorResponse("File not found")]
    ELSE LET lines == Split(v[filePath], NL)
         IN  IF lineNumber < 1 \/ lineNumber > Len(lines)
             THEN [vault |-> v, resp |-> ErrorResponse("Invalid line number")]
             ELSE [vault |-> [v EXCEPT ![filePath] =
                                Join(ReplaceLine(lines, lineNumber, newTaskMarkdown), <<NL>>)],
                   resp |-> Result(filePath, lineNumber, lines[lineNumber], newTaskMarkdown)]

\* update_task once the line at the address is read and parsed
UpdateParsed(v, args, addr, currentLine, currentTask) ==
    IF currentTask = Null
    THEN [vault |-> v, resp |-> ErrorResponse("No task found")]
    ELSE updateTaskInFile(v, addr.filePath, addr.lineNumber,
                          UpdatedMarkdown(currentLine, currentTask, args))

\* update_task once the file at the address is read and split into lines
UpdateLines(v, args, addr, lines) ==
    IF addr.lineNumber < 1 \/ addr.lineNumber > Len(lines)
    THEN [vault |-> v, resp |-> ErrorResponse("Invalid line number")]
    ELSE UpdateParsed(v, args, addr, lines[addr.lineNumber],
           parseTaskLine(lines[addr.lineNumber], addr.filePath, addr.lineNumber))

\* update_task once the address is resolved
UpdateAt(v, args, addr) ==
    IF addr.error # "" THEN [vault |-> v, resp |-> ErrorResponse(addr.error)]
    ELSE IF ~FileExists(v, addr.filePath)
    THEN [vault |-> v, resp |-> ErrorResponse("File not found")]
    ELSE UpdateLines(v, args, addr, Split(v[addr.filePath], NL))

\* handleToolCall, case 'update_task': the vault and the response after it
UpdateTask(v, args) == UpdateAt(v, args, ResolveAddress(args))

\* TasksMcpPlugin.addTaskToFile: the vault after it
addTaskToFile(v, filePath, taskMarkdown) ==
    IF ~FileExists(v, filePath)
    THEN [p \in DOMAIN v \cup {filePath} |->
            IF p = filePath THEN taskMarkdown \o <<NL>> ELSE v[p]]
    ELSE LET content == v[filePath]
         IN  [v EXCEPT ![filePath] =
                IF At(content, Len(content)) = NL
                THEN content \o taskMarkdown \o <<NL>>
                ELSE content \o <<NL>> \o taskMarkdown \o <<NL>>]

\* add_task once the target file and the line to write are known
AddLine(v, filePath, taskMarkdown) ==
    [vault |-> addTaskToFile(v, filePath, taskMarkdown),
     resp |-> [kind |-> "result", filePath |-> filePath, task |-> taskMarkdown]]

\* handleToolCall, case 'add_task': the vault and the response after it
AddTask(v, args) ==
    IF ~Truthy(args.description)
    THEN [vault |-> v, resp |-> ErrorResponse("description is required")]
    ELSE AddLine(v, IF Truthy(args.filePath) THEN args.filePath ELSE getDailyNotePath,
                 buildTaskMarkdown(args))

\* the code points above U+FFFF: two UTF-16 code units each
Astral == {GDue, GCal, GStart, GRec, GMed, GLow}

\* "." of a regular expression without the u flag: one UTF-16 code unit
\* that is not a line break
IsUnit(c) == c \notin Astral \cup {NL, EOS}

\* taskLine.replace(/\[.\]/, `[${newStatusChar}]`) from position i on: the
\* leftmost bracketed code unit is replaced, or nothing when there is none
RECURSIVE ReplaceFirstBox(_, _, _)
ReplaceFirstBox(taskLine, newStatusChar, i) ==
    IF i > Len(taskLine) THEN <<>>
    ELSE IF taskLine[i] = "[" /\ IsUnit(At(taskLine, i + 1)) /\ At(taskLine, i + 2) = "]"
    THEN <<"[", newStatusChar, "]">> \o From(taskLine, i + 3)
    ELSE <<taskLine[i]>> \o ReplaceFirstBox(taskLine, newStatusChar, i + 1)

\* a toggle that cancels a complete task
NewStatusCharCancelling(status) == IF status = "complete" THEN "-" ELSE "x"

\* toggle_task, fallback: the status character it writes
NewStatusChar(status) == IF status = "complete" THEN " " ELSE "x"

\* lines with line lineNumber replaced by newLine, as the file content
WriteLine(v, filePath, lines, lineNumber, newLine) ==
    [v EXCEPT ![filePath] = Join(ReplaceLine(lines, lineNumber, newLine), <<NL>>)]

\* toggle_task, fallback, once the line is parsed
ToggleParsed(v, addr, lines, taskLine, task) ==
    IF task = Null
    THEN [vault |-> v, resp |-> ErrorResponse("No task found")]
    ELSE [vault |-> WriteLine(v, addr.filePath, lines, addr.lineNumber,
                              ReplaceFirstBox(taskLine, NewStatusChar(task.status), 1)),
          resp |-> Result(addr.filePath, addr.lineNumber, taskLine,
                          ReplaceFirstBox(taskLine, NewStatusChar(task.status), 1))]

\* toggle_task once the file is read; api is what the Tasks API answers for
\* the line, NoApi when the plugin is absent
ToggleLines(v, addr, lines, api) ==
    IF addr.lineNumber < 1 \/ addr.lineNumber > Len(lines)
    THEN [vault |-> v, resp |-> ErrorResponse("Invalid line number")]
    ELSE IF api # NoApi
    THEN [vault |-> WriteLine(v, addr.filePath, lines, addr.lineNumber, api),
          resp |-> Result(addr.filePath, addr.lineNumber, lines[addr.lineNumber], api)]
    ELSE ToggleParsed(v, addr, lines, lines[addr.lineNumber],
           parseTaskLine(lines[addr.lineNumber], addr.filePath, addr.lineNumber))

\* toggle_task once the address is resolved
ToggleAt(v, addr, api) ==
    IF addr.error # "" THEN [vault |-> v, resp |-> ErrorResponse(addr.error)]
    ELSE IF ~FileExists(v, addr.filePath)
    THEN [vault |-> v, resp |-> ErrorResponse("File not found")]
    ELSE ToggleLines(v, addr, Split(v[addr.filePath], NL), api)

\* handleToolCall, case 'toggle_task': the vault and the response after it
ToggleTask(v, args, api) == ToggleAt(v, ResolveAddress(args), api)

\* lines without line lineNumber: lines.splice(lineNumber - 1, 1)
Splice(lines, lineNumber) ==
    SubSeq(lines, 1, lineNumber - 1) \o SubSeq(lines, lineNumber + 1, Len(lines))

\* a removal that answers the error after removing the last line
RemoveLineClamping(v, filePath, lineNumber, lines) ==
    IF lineNumber < 1 \/ lineNumber > Len(lines)
    THEN [vault |-> [v EXCEPT ![filePath] = Join(Splice(lines, Len(lines)), <<NL>>)],
          resp |-> ErrorResponse("Invalid line number")]
    ELSE [vault |-> [v EXCEPT ![filePath] = Join(Splice(lines, lineNumber), <<NL>>)],
          resp |-> [kind |-> "result", filePath |-> filePath, lineNumber |-> lineNumber,
                    removedTask |-> lines[lineNumber]]]

\* removeTaskFromFile once the file is read
RemoveLine(v, filePath, lineNumber, lines) ==
    IF lineNumber < 1 \/ lineNumber > Len(lines)
    THEN [vault |-> v, resp |-> ErrorResponse("Invalid line number")]
    ELSE [vault |-> [v EXCEPT ![filePath] = Join(Splice(lines, lineNumber), <<NL>>)],
          resp |-> [kind |-> "result", filePath |-> filePath, lineNumber |-> lineNumber,
                    removedTask |-> lines[lineNumber]]]

\* TasksMcpPlugin.removeTaskFromFile: the vault and the response after it
removeTaskFromFile(v, filePath, lineNumber) ==
    IF ~FileExists(v, filePath)
    THEN [vault |-> v, resp |-> ErrorResponse("File not found")]
    ELSE RemoveLine(v, filePath, lineNumber, Split(v[filePath], NL))

\* remove_task once the address is resolved
RemoveAt(v, addr) ==
    IF addr.error # "" THEN [vault |-> v, resp |-> ErrorResponse(addr.error)]
    ELSE removeTaskFromFile(v, addr.filePath, addr.lineNumber)

\* handleToolCall, case 'remove_task': the vault and the response after it
RemoveTask(v, args) == RemoveAt(v, ResolveAddress(args))

\* getMarkdownFiles(): the files of the vault, in a fixed order
RECURSIVE SetToSeq(_)
SetToSeq(S) ==
    IF S = {} THEN <<>>
    ELSE LET x == CHOOSE y \in S : TRUE IN <<x>> \o SetToSeq(S \ {x})

RECURSIVE ParseLines(_, _, _)
\* lines.forEach((line, index) => ...) of getAllTasks, from index i on
ParseLines(lines, filePath, i) ==
    IF i > Len(lines) THEN <<>>
    ELSE LET task == parseTaskLine(lines[i], filePath, i)
         IN  (IF task # Null THEN <<task>> ELSE <<>>) \o ParseLines(lines, filePath, i + 1)

RECURSIVE TasksOfFiles(_, _)
TasksOfFiles(v, files) ==
    IF Len(files) = 0 THEN <<>>
    ELSE ParseLines(Split(v[Head(files)], NL), Head(files), 1)
           \o TasksOfFiles(v, Tail(files))

\* TasksMcpPlugin.getAllTasks(filePath)
getAllTasks(v, filePath) ==
    TasksOfFiles(v, IF Truthy(filePath)
                    THEN (IF FileExists(v, filePath) THEN <<filePath>> ELSE <<>>)
                    ELSE SetToSeq(DOMAIN v))

(***************************************************************************)
(* query_tasks: TaskParser.applyFilter and TaskParser.queryTasks           *)
(***************************************************************************)
\* String.prototype.toLowerCase, on the Latin letters
ToLowerCase(s) ==
    [i \in 1..Len(s) |->
        IF \E k \in 1..26 : Chars("ABCDEFGHIJKLMNOPQRSTUVWXYZ")[k] = s[i]
        THEN Chars("abcdefghijklmnopqrstuvwxyz")[
                 CHOOSE k \in 1..26 : Chars("ABCDEFGHIJKLMNOPQRSTUVWXYZ")[k] = s[i]]
        ELSE s[i]]

\* x occurs in s at position i
OccursAt(s, x, i) == i >= 1 /\ i + Len(x) - 1 <= Len(s) /\ SubSeq(s, i, i + Len(x) - 1) = x

\* String.prototype.startsWith and String.prototype.includes
startsWith(s, x) == OccursAt(s, x, 1)
includes(s, x) == \E i \in 1..(Len(s) + 1) : OccursAt(s, x, i)

RECURSIVE SplitOn(_, _, _, _)
\* s.split(sep) for a separator of several characters: the pieces of s from
\* position i on, the current piece starting at position a
SplitOn(s, sep, a, i) ==
    IF i > Len(s) THEN << From(s, a) >>
    ELSE IF OccursAt(s, sep, i)
    THEN << SubSeq(s, a, i - 1) >> \o SplitOn(s, sep, i + Len(sep), i + Len(sep))
    ELSE SplitOn(s, sep, a, i + 1)

\* a < b for strings, by code unit: the characters of a date compare as
\* '-' before the digits in their order
CodeUnit(c) == CHOOSE k \in 1..11 : Chars("-0123456789")[k] = c
LessThan(a, b) ==
    \E k \in 1..Len(b) :
        /\ k <= Len(a) + 1
        /\ SubSeq(a, 1, k - 1) = SubSeq(b, 1, k - 1)
        /\ k = Len(a) + 1 \/ CodeUnit(a[k]) < CodeUnit(b[k])

\* TaskParser.getToday(): the date the clock reads
getToday == Today

NoMatch == <<"<no match>">>

RECURSIVE SkipWords(_, _, _)
\* the position after the words, each followed by \s+, matched from i on;
\* 0 when they do not match
SkipWords(s, i, words) ==
    IF Len(words) = 0 THEN i
    ELSE IF OccursAt(s, Head(words), i) /\ IsSpace(At(s, i + Len(Head(words))))
    THEN SkipWords(s, SkipSpaces(s, i + Len(Head(words))), Tail(words))
    ELSE 0

\* filter.match(/^w1\s+w2\s+(\d{4}-\d{2}-\d{2})$/)[1], NoMatch when null
DateAfter(filter, words) ==
    IF IsDateAt(filter, SkipWords(filter, 1, words))
         /\ SkipWords(filter, 1, words) + 9 = Len(filter)
    THEN From(filter, SkipWords(filter, 1, words))
    ELSE NoMatch

\* filter.match(/^due\s+(?:on\s+)?(\d{4}-\d{2}-\d{2})$/)[1]
DueDateMatch(filter) ==
    IF DateAfter(filter, <<Chars("due")>>) # NoMatch
    THEN DateAfter(filter, <<Chars("due")>>)
    ELSE DateAfter(filter, <<Chars("due"), Chars("on")>>)

\* s.replace(/^#/, '')
DropHash(s) == IF At(s, 1) = "#" THEN Tail(s) ELSE s

\* s without its first n characters, trimmed: filter.replace(prefix, '').trim()
\* for a filter that starts with the prefix
Rest(filter, prefix) == Trim(From(filter, Len(prefix) + 1))

\* a tag test that compares the tag as written
TagIncludesCased(tags, tagToFind) ==
    \E i \in 1..Len(tags) : includes(DropHash(tags[i]), tagToFind)

\* task.tags.some(tag => tag.replace(/^#/, '').toLowerCase().includes(tagToFind))
TagIncludes(tags, tagToFind) ==
    \E i \in 1..Len(tags) : includes(ToLowerCase(DropHash(tags[i])), tagToFind)

\* a 'not done' that takes every task that is not complete
NotDoneNotComplete(task) == task.status # "complete"

\* filter === 'not done'
NotDone(task) == task.status = "incomplete" \/ task.status = "in_progress"

\* a priority test for which a task without priority is of every priority
PriorityIsOrNone(task, priority) ==
    task.priority = "undefined" \/ Chars(task.priority) = priority

\* the 'priority is ' filter: priority is the text after the prefix
PriorityIs(task, priority) ==
    IF priority = Chars("none") THEN task.priority = "undefined"
    ELSE task.priority # "undefined" /\ Chars(task.priority) = priority

\* a default that compares the description as written
RecurrenceFiltersCased(task, filter) ==
    IF filter = Chars("is recurring") THEN task.recurrence # Undefined
    ELSE IF filter = Chars("is not recurring") THEN task.recurrence = Undefined
    ELSE includes(task.description, filter)

\* applyFilter from "// Recurrence filter" on
RecurrenceFilters(task, filter) ==
    IF filter = Chars("is recurring") THEN task.recurrence # Undefined
    ELSE IF filter = Chars("is not recurring") THEN task.recurrence = Undefined
    ELSE includes(ToLowerCase(task.description), filter)

\* applyFilter from "// Path filters" on
TextFilters(task, filter) ==
    IF startsWith(filter, Chars("path includes "))
    THEN includes(ToLowerCase(task.filePath), ToLowerCase(Rest(filter, Chars("path includes "))))
    ELSE IF startsWith(filter, Chars("path does not include "))
    THEN ~includes(ToLowerCase(task.filePath),
                   ToLowerCase(Rest(filter, Chars("path does not include "))))
    ELSE IF startsWith(filter, Chars("description includes "))
    THEN includes(ToLowerCase(task.description),
                  ToLowerCase(Rest(filter, Chars("description includes "))))
    ELSE IF startsWith(filter, Chars("description does not include "))
    THEN ~includes(ToLowerCase(task.description),
                   ToLowerCase(Rest(filter, Chars("description does not include "))))
    ELSE IF startsWith(filter, Chars("priority is "))
    THEN PriorityIs(task, Rest(filter, Chars("priority is ")))
    ELSE RecurrenceFilters(task, filter)

\* applyFilter from "// Tag filters" on
TagFilters(task, filter) ==
    IF filter = Chars("no tags") THEN Len(task.tags) = 0
    ELSE IF filter = Chars("has tags") THEN Len(task.tags) > 0
    ELSE IF startsWith(filter, Chars("tag includes "))
    THEN TagIncludes(task.tags, DropHash(Rest(filter, Chars("tag includes "))))
    ELSE IF startsWith(filter, Chars("tag include "))
    THEN TagIncludes(task.tags, DropHash(Rest(filter, Chars("tag include "))))
    ELSE IF startsWith(filter, Chars("tag does not include "))
    THEN ~TagIncludes(task.tags, DropHash(Rest(filter, Chars("tag does not include "))))
    ELSE IF startsWith(filter, Chars("tag do not include "))
    THEN ~TagIncludes(task.tags, DropHash(Rest(filter, Chars("tag do not include "))))
    ELSE TextFilters(task, filter)

\* applyFilter from "// Scheduled date filters" on
ScheduledStartFilters(task, filter, today) ==
    IF filter = Chars("scheduled today") THEN task.scheduledDate = today
    ELSE IF filter = Chars("scheduled before today")
    THEN task.scheduledDate # Undefined /\ LessThan(task.scheduledDate, today)
    ELSE IF filter = Chars("no scheduled date") THEN task.scheduledDate = Undefined
    ELSE IF filter = Chars("has scheduled date") THEN task.scheduledDate # Undefined
    ELSE IF filter = Chars("starts today") THEN task.startDate = today
    ELSE IF filter = Chars("starts before today")
    THEN task.startDate # Undefined /\ LessThan(task.startDate, today)
    ELSE IF filter = Chars("no start date") THEN task.startDate = Undefined
    ELSE IF filter = Chars("has start date") THEN task.startDate # Undefined
    ELSE TagFilters(task, filter)

\* applyFilter from "// Due date with specific date" on
DueDateFilters(task, filter, today) ==
    IF DueDateMatch(filter) # NoMatch THEN task.dueDate = DueDateMatch(filter)
    ELSE IF DateAfter(filter, <<Chars("due"), Chars("before")>>) # NoMatch
    THEN task.dueDate # Undefined
           /\ LessThan(task.dueDate, DateAfter(filter, <<Chars("due"), Chars("before")>>))
    ELSE IF DateAfter(filter, <<Chars("due"), Chars("after")>>) # NoMatch
    THEN task.dueDate # Undefined
           /\ LessThan(DateAfter(filter, <<Chars("due"), Chars("after")>>), task.dueDate)
    ELSE ScheduledStartFilters(task, filter, today)

\* applyFilter from "// Status filters" on
StatusFilters(task, filter, today) ==
    IF filter = Chars("done") THEN task.status = "complete"
    ELSE IF filter = Chars("not done") THEN NotDone(task)
    ELSE IF filter = Chars("cancelled") THEN task.status = "cancelled"
    ELSE IF filter = Chars("in progress") THEN task.status = "in_progress"
    ELSE IF filter = Chars("due today") THEN task.dueDate = today
    ELSE IF filter = Chars("due before today") \/ filter = Chars("overdue")
    THEN task.dueDate # Undefined /\ LessThan(task.dueDate, today)
    ELSE IF filter = Chars("due after today")
    THEN task.dueDate # Undefined /\ LessThan(today, task.dueDate)
    ELSE IF filter = Chars("no due date") THEN task.dueDate = Undefined
    ELSE IF filter = Chars("has due date") THEN task.dueDate # Undefined
    ELSE DueDateFilters(task, filter, today)

RECURSIVE Filter(_, _)
\* boolean combinations that look for ' or ' before ' and '
FilterOrFirst(task, filter) ==
    IF includes(filter, Chars(" or "))
    THEN \E part \in Range(SplitOn(filter, Chars(" or "), 1, 1)) :
             Filter(task, Trim(ToLowerCase(Trim(part))))
    ELSE IF includes(filter, Chars(" and "))
    THEN \A part \in Range(SplitOn(filter, Chars(" and "), 1, 1)) :
             Filter(task, Trim(ToLowerCase(Trim(part))))
    ELSE IF startsWith(filter, Chars("not ")) /\ filter # Chars("not done")
    THEN ~Filter(task, Trim(ToLowerCase(From(filter, 5))))
    ELSE StatusFilters(task, filter, getToday)

\* a negation rule that takes 'not done' for the negation of 'done'
FilterNegatingDone(task, filter) ==
    IF includes(filter, Chars(" and "))
    THEN \A part \in Range(SplitOn(filter, Chars(" and "), 1, 1)) :
             Filter(task, Trim(ToLowerCase(Trim(part))))
    ELSE IF includes(filter, Chars(" or "))
    THEN \E part \in Range(SplitOn(filter, Chars(" or "), 1, 1)) :
             Filter(task, Trim(ToLowerCase(Trim(part))))
    ELSE IF startsWith(filter, Chars("not "))
    THEN ~Filter(task, Trim(ToLowerCase(From(filter, 5))))
    ELSE StatusFilters(task, filter, getToday)

\* applyFilter once the filter is lower-cased and trimmed
Filter(task, filter) ==
    IF includes(filter, Chars(" and "))
    THEN \A part \in Range(SplitOn(filter, Chars(" and "), 1, 1)) :
             Filter(task, Trim(ToLowerCase(Trim(part))))
    ELSE IF includes(filter, Chars(" or "))
    THEN \E part \in Range(SplitOn(filter, Chars(" or "), 1, 1)) :
             Filter(task, Trim(ToLowerCase(Trim(part))))
    ELSE IF startsWith(filter, Chars("not ")) /\ filter # Chars("not done")
    THEN ~Filter(task, Trim(ToLowerCase(From(filter, 5))))
    ELSE StatusFilters(task, filter, getToday)

\* TaskParser.applyFilter
applyFilter(task, filter) == Filter(task, Trim(ToLowerCase(filter)))

\* line => line && !line.startsWith('#')
IsFilterLine(line) == Len(line) > 0 /\ line[1] # "#"

\* queryText.split('\n').map(line => line.trim()).filter(...)
FiltersOf(queryText) ==
    SelectSeq([i \in 1..Len(Split(queryText, NL)) |-> Trim(Split(queryText, NL)[i])],
              IsFilterLine)

\* a task passes when some filter does
PassesSome(task, filters) == \E i \in 1..Len(filters) : applyFilter(task, filters[i])

\* the callback of tasks.filter: no filter of the query fails
PassesAll(task, filters) == \A i \in 1..Len(filters) : applyFilter(task, filters[i])

RECURSIVE Matching(_, _)
\* tasks.filter(task => ...) for the filters of a query
Matching(ts, filters) ==
    IF Len(ts) = 0 THEN <<>>
    ELSE (IF PassesAll(Head(ts), filters) THEN <<Head(ts)>> ELSE <<>>)
           \o Matching(Tail(ts), filters)

\* TaskParser.queryTasks
queryTasks(ts, queryText) == Matching(ts, FiltersOf(queryText))

\* handleToolCall, case 'query_tasks': queryText.split throws when the
\* query is not given, and the catch answers the error
QueryTasks(v, args) ==
    IF args.query = Undefined
    THEN [vault |-> v, resp |-> ErrorResponse("TypeError")]
    ELSE [vault |-> v,
          resp |-> [kind |-> "result",
                    tasks |-> queryTasks(getAllTasks(v, args.filePath), args.query)]]

\* the query get_tasks_by_date builds from its arguments
DateQuery(date, includeOverdue) ==
    IF includeOverdue
    THEN Chars("has due date") \o <<NL>> \o Chars("due before ") \o date \o Chars(" or due ")
           \o date \o <<NL>> \o Chars("not done")
    ELSE Chars("due ") \o date

\* handleToolCall, case 'get_tasks_by_date'
GetTasksByDate(v, args) ==
    [vault |-> v,
     resp |-> [kind |-> "result",
               tasks |-> queryTasks(getAllTasks(v, Undefined),
                                    DateQuery(args.date, args.includeOverdue))]]

(***************************************************************************)
(* Actions: one per tool call                                              *)
(***************************************************************************)
\* the line a result reports as written: task of add_task, newTask of update_task
LineOf(result) == IF "task" \in DOMAIN result THEN result.task ELSE result.newTask

\* the lines a response reports as written: none for an error or a removal
WrittenBy(response) ==
    IF "task" \in DOMAIN response \/ "newTask" \in DOMAIN response
    THEN {LineOf(response)} ELSE {}

\* the server answers the request `name` with r.resp and leaves the vault r.vault
Respond(name, args, r) ==
    /\ vault' = r.vault
    /\ resp' = r.resp
    /\ call' = [name |-> name, args |-> args]
    /\ written' = written \cup WrittenBy(r.resp)
    /\ nCalls' = nCalls + 1
    /\ UNCHANGED <<tasks, tasksApi, inflight, pluginVars>>

add_task(args) == Respond("add_task", args, AddTask(vault, args))

update_task(args) == Respond("update_task", args, UpdateTask(vault, args))

\* tasksApi.executeToggleTaskDoneCommand(line, path): what the Tasks plugin
\* may answer: the line done, or a new occurrence followed by the line done
ApiAnswers ==
    { <<"-", " ", "[", "x", "]", " ", "d">>,
      <<"-", " ", "[", " ", "]", " ", "n", NL, "-", " ", "[", "x", "]", " ", "d">> }

toggle_task(args) ==
    \E api \in (IF tasksApi THEN ApiAnswers ELSE {NoApi}) :
        Respond("toggle_task", args, ToggleTask(vault, args, api))

remove_task(args) == Respond("remove_task", args, RemoveTask(vault, args))

query_tasks(args) == Respond("query_tasks", args, QueryTasks(vault, args))

get_tasks_by_date(args) ==
    Respond("get_tasks_by_date", args, GetTasksByDate(vault, args))

list_tasks(filePath) ==
    /\ tasks' = getAllTasks(vault, filePath)
    /\ UNCHANGED <<vault, call, resp, written, nCalls, tasksApi, inflight, pluginVars>>

(***************************************************************************)
(* Tool calls step by step: a handler runs up to its next await, and other *)
(* handlers run while vault.read or vault.modify is pending                *)
(***************************************************************************)
MaxInFlight == 2
MaxRaceCalls == 2
Slots == 1..MaxInFlight

\* no request is suspended in the slot
Idle == [pc |-> "idle"]

\* requests received and not yet answered
Pending == {s \in DOMAIN inflight : inflight[s].pc # "idle"}

\* a request suspended at pc: line is the line it read at its start, newTask
\* the markdown it computed, data the content it hands to vault.modify and
\* answer the response it returns once the write is done
Suspended(pc, name, args, r, data) ==
    [pc |-> pc, name |-> name, args |-> args, filePath |-> r.filePath,
     lineNumber |-> r.lineNumber,
     line |-> IF "oldTask" \in DOMAIN r THEN r.oldTask ELSE r.removedTask,
     newTask |-> IF "newTask" \in DOMAIN r THEN r.newTask ELSE <<>>,
     data |-> data, answer |-> r]

\* the handler in slot s returns r, the vault being v
Answer(s, name, args, v, r) ==
    /\ vault' = v
    /\ resp' = r
    /\ call' = [name |-> name, args |-> args]
    /\ written' = written \cup WrittenBy(r)
    /\ nCalls' = nCalls + 1
    /\ inflight' = [inflight EXCEPT ![s] = Idle]
    /\ UNCHANGED <<tasks, tasksApi, pluginVars>>

\* the handler in slot s runs up to an await and is suspended as f
Suspend(s, f) ==
    /\ inflight' = [inflight EXCEPT ![s] = f]
    /\ UNCHANGED <<vault, call, resp, tasks, written, nCalls, tasksApi, pluginVars>>

\* a request arrives while fewer than MaxRaceCalls were received: the handler
\* runs from its first vault.read, which sees the vault as it is now, up to
\* its error return or its next await; r is what it would do without an
\* await, whose response and content are those it computes from this read
ReadThen(s, name, args, r, pc) ==
    /\ inflight[s] = Idle
    /\ nCalls + Cardinality(Pending) < MaxRaceCalls
    /\ IF r.resp.kind = "error"
       THEN Answer(s, name, args, vault, r.resp)
       ELSE Suspend(s, Suspended(pc, name, args, r.resp, r.vault[r.resp.filePath]))

\* toggle_task up to vault.modify
ReadToggle(s, args) ==
    \E api \in (IF tasksApi THEN ApiAnswers ELSE {NoApi}) :
        ReadThen(s, "toggle_task", args, ToggleTask(vault, args, api), "write")

\* remove_task up to vault.modify in removeTaskFromFile
ReadRemove(s, args) ==
    ReadThen(s, "remove_task", args, RemoveTask(vault, args), "write")

\* update_task up to the call of updateTaskInFile and its vault.read
ReadUpdate(s, args) ==
    ReadThen(s, "update_task", args, UpdateTask(vault, args), "reread")

\* updateTaskInFile from its vault.read, which sees the vault as it is now,
\* up to its throw or its vault.modify
RereadUpdate(s) ==
    /\ inflight[s].pc = "reread"
    /\ LET f == inflight[s]
           r == updateTaskInFile(vault, f.filePath, f.lineNumber, f.newTask)
       IN  IF r.resp.kind = "error"
           THEN Answer(s, f.name, f.args, vault, r.resp)
           ELSE Suspend(s, [Suspended("write", f.name, f.args, r.resp, r.vault[f.filePath])
                              EXCEPT !.line = f.line])

\* vault.modify(file, lines.join('\n')) takes effect and the handler returns
Write(s) ==
    /\ inflight[s].pc = "write"
    /\ LET f == inflight[s]
       IN  Answer(s, f.name, f.args, [vault EXCEPT ![f.filePath] = f.data], f.answer)

(***************************************************************************)
(* The life of the HTTP server: onload, onunload, the toggle command, the  *)
(* auto-start timer and the events of the http.Server objects              *)
(***************************************************************************)
MaxServers == 3

\* what the tool handlers and the vault hold
handlerVars == <<vault, call, resp, tasks, written, nCalls, tasksApi, inflight>>

\* the servers that hold the port or are about to
Listening == {i \in DOMAIN servers : servers[i] = "listening"}

\* TasksMcpPlugin.startServer: [server, servers] after it. With a server
\* in the field nothing is created; otherwise http.createServer and listen,
\* whose outcome comes later as the 'listening' or the 'error' event
startServer ==
    IF server # 0 THEN [server |-> server, servers |-> servers]
    ELSE [server |-> Len(servers) + 1, servers |-> Append(servers, "pending")]

\* startServer can run: it creates nothing, or fewer than MaxServers exist
CanStart == server # 0 \/ Len(servers) < MaxServers

\* TasksMcpPlugin.stopServer: [server, servers] after it
stopServer ==
    IF server # 0
    THEN [server |-> 0, servers |-> [servers EXCEPT ![server] = "closed"]]
    ELSE [server |-> server, servers |-> servers]

\* onload: the settings are loaded, the commands registered and, with
\* enableServer, startServer is scheduled two seconds later
onload(enableServer) ==
    /\ lifecycle = "new"
    /\ lifecycle' = "loaded"
    /\ timer' = enableServer
    /\ UNCHANGED <<server, servers, handlerVars>>

\* onunload: stopServer; the timer of onload is not cleared
onunload ==
    /\ lifecycle = "loaded"
    /\ lifecycle' = "unloaded"
    /\ server' = stopServer.server
    /\ servers' = stopServer.servers
    /\ UNCHANGED <<timer, handlerVars>>

\* the callback of setTimeout runs, whatever happened to the plugin since
TimerFires ==
    /\ timer
    /\ CanStart
    /\ timer' = FALSE
    /\ server' = startServer.server
    /\ servers' = startServer.servers
    /\ UNCHANGED <<lifecycle, handlerVars>>

\* the command toggle-mcp-server, and likewise the button of the settings
\* tab: both exist while the plugin is loaded
ToggleCommand ==
    /\ lifecycle = "loaded"
    /\ IF server # 0
       THEN server' = stopServer.server /\ servers' = stopServer.servers
       ELSE /\ CanStart
            /\ server' = startServer.server /\ servers' = startServer.servers
    /\ UNCHANGED <<timer, lifecycle, handlerVars>>

\* server i binds the port, which no other server of the plugin holds: the
\* callback of listen only shows a Notice
ListenDone(i) ==
    /\ servers[i] = "pending"
    /\ Listening = {}
    /\ servers' = [servers EXCEPT ![i] = "listening"]
    /\ UNCHANGED <<server, timer, lifecycle, handlerVars>>

\* listen of server i fails (EADDRINUSE and others): its 'error' handler
\* sets this.server = null, whichever server the field holds
ListenError(i) ==
    /\ servers[i] = "pending"
    /\ servers' = [servers EXCEPT ![i] = "failed"]
    /\ server' = 0
    /\ UNCHANGED <<timer, lifecycle, handlerVars>>

\* the listening server i emits 'error' (a failed accept, EMFILE for one):
\* the server keeps listening and its handler sets this.server = null
ServerError(i) ==
    /\ servers[i] = "listening"
    /\ server # 0
    /\ server' = 0
    /\ UNCHANGED <<servers, timer, lifecycle, handlerVars>>

(***************************************************************************)
(* Inputs                                                                  *)
(***************************************************************************)
D1 == <<"2", "0", "2", "5", "-", "0", "1", "-", "0", "1">>
D2 == <<"2", "0", "2", "5", "-", "0", "6", "-", "3", "0">>
DocPath == <<"f", ".", "m", "d">>
Daily == <<"d", "a", "i", "l", "y">>
Weekly == <<"w", "e", "e", "k", "l", "y">>
EveryWeek == <<"e", "v", "e", "r", "y", " ", "w", "e", "e", "k">>
TaskId1 == DocPath \o <<":", "1">>

\* a vault holding one file, and the vault without files
File(filePath, content) == [p \in {filePath} |-> content]
EmptyVault == [p \in {} |-> <<>>]

\* the arguments of an add_task call
AddArgsOf(description, filePath, dueDate, scheduledDate, startDate, priority, tags, recurrence) ==
    [description |-> description, filePath |-> filePath, dueDate |-> dueDate,
     scheduledDate |-> scheduledDate, startDate |-> startDate,
     priority |-> priority, tags |-> tags, recurrence |-> recurrence]

\* the add_task calls of SpecAdd: every combination of these field values
AddArgs ==
    { AddArgsOf(d, fp, due, sch, st, pr, tg, rc) :
        d \in {<<>>, <<"a", " ", "b">>},
        fp \in {Undefined, DocPath},
        due \in {Undefined, D1},
        sch \in {Undefined, D2},
        st \in {Undefined, D1},
        pr \in {"undefined", "highest", "high", "medium", "low", "lowest"},
        tg \in {UndefinedTags, <<>>, << <<"t">> >>, << <<"#", "t">>, <<"u">> >>},
        rc \in {Undefined, Daily, EveryWeek} }

\* the files SpecAdd starts from: no file, a file without and one with a final newline
AddVaults ==
    { EmptyVault,
      File(DocPath, <<"x">>),
      File(DocPath, <<"-", " ", "[", "x", "]", " ", "z", NL>>) }

\* the add_task calls of Spec
SmallAddArgs ==
    { AddArgsOf(<<"a", " ", "b">>, DocPath, D1, D2, D1, "high", << <<"t">>, <<"#", "u">> >>, Daily),
      AddArgsOf(<<"a">>, DocPath, D2, Undefined, Undefined, "undefined", UndefinedTags, EveryWeek),
      AddArgsOf(<<>>, DocPath, D1, Undefined, Undefined, "low", UndefinedTags, Undefined),
      AddArgsOf(<<"a">>, Undefined, Undefined, Undefined, Undefined, "undefined", <<>>, Undefined) }

\* an update_task call that addresses nothing and overrides nothing
NoOverrides ==
    [taskId |-> Undefined, filePath |-> Undefined, lineNumber |-> <<>>,
     description |-> Undefined, status |-> "undefined", dueDate |-> Undefined,
     scheduledDate |-> Undefined, startDate |-> Undefined, priority |-> "undefined",
     tags |-> UndefinedTags, recurrence |-> Undefined]

OnLine1 == [NoOverrides EXCEPT !.taskId = TaskId1]

\* the update_task calls of Spec: line 1 of the document with no override,
\* with one, or with two, and other ways of addressing a line
UpdateArgs ==
    { OnLine1,
      [OnLine1 EXCEPT !.description = <<"n">>],
      [OnLine1 EXCEPT !.status = "complete"],
      [OnLine1 EXCEPT !.dueDate = <<>>],
      [OnLine1 EXCEPT !.dueDate = D2],
      [OnLine1 EXCEPT !.scheduledDate = D1, !.startDate = <<>>],
      [OnLine1 EXCEPT !.priority = "none"],
      [OnLine1 EXCEPT !.priority = "low", !.tags = << <<"v">> >>],
      [OnLine1 EXCEPT !.tags = <<>>],
      [OnLine1 EXCEPT !.tags = << <<"v">>, <<"#", "w">> >>],
      [OnLine1 EXCEPT !.recurrence = <<>>],
      [OnLine1 EXCEPT !.recurrence = Weekly],
      [OnLine1 EXCEPT !.recurrence = EveryWeek],
      [NoOverrides EXCEPT !.filePath = DocPath, !.lineNumber = <<2>>],
      [NoOverrides EXCEPT !.filePath = DocPath, !.lineNumber = <<0>>],
      [NoOverrides EXCEPT !.taskId = DocPath \o <<":", "x">>],
      NoOverrides }

\* the documents Spec starts from: hand-written task lines, or no file yet
InitVaults ==
    { EmptyVault,
      File(DocPath, <<"-", " ", "[", " ", "]", " ", "a", " ", GCreated, " ">> \o D1 \o <<NL>>),
      File(DocPath, <<" ", " ", "*", " ", "[", "/", "]", " ", "b", " ", "#", "x", " ", GDue, " ">>
                    \o D1 \o <<" ", GHigh, NL, "p", "l", "a", "i", "n", NL>>),
      File(DocPath, <<"1", ".", " ", "[", "x", "]", " ", "c", " ", GRec, " ">> \o EveryWeek
                    \o <<" ", GSched, " ">> \o D2) }

\* a document whose path holds the separator of identifiers
ColonPath == Chars("a:b.md")

\* the lines of the documents SpecLine starts from
DoneLine == Chars("- [x] Done task ") \o <<GRec, " ">> \o EveryWeek \o <<" ", GDue, " ">> \o D1
AstralLine == <<"-", " ", "[", GDue, "]", " ">> \o Chars("a [b]")
LineDocument ==
    Join(<<DoneLine, Chars("- [/] p"), Chars("  * [-] c [x]"), AstralLine, Chars("plain")>>, <<NL>>)
LongDocument ==
    Join(<<Chars("- [ ] a"), <<>>, <<>>, <<>>, <<>>, <<>>, <<>>, <<>>, <<>>, Chars("1. [X] j")>>, <<NL>>)

\* the vault SpecLine starts from
LineVault == [p \in {DocPath, ColonPath} |-> IF p = DocPath THEN LineDocument ELSE LongDocument]

\* a call that addresses a line by identifier, or by path and line number
ById(id) == [NoOverrides EXCEPT !.taskId = id]
ByPath(filePath, lineNumber) ==
    [NoOverrides EXCEPT !.filePath = filePath, !.lineNumber = <<lineNumber>>]

\* the identifiers callers send besides those list_tasks answered
TaskIds ==
    { DocPath \o Chars(":0"), DocPath \o Chars(":4"),
      DocPath \o Chars(":6"), DocPath \o Chars(":1x"), DocPath \o Chars(":x"),
      DocPath \o Chars(":"), DocPath, ColonPath \o Chars(":11"), Chars("g.md:1") }

\* the ways SpecLine addresses a line
LineArgs ==
    { ById(id) : id \in TaskIds }
      \cup { ByPath(DocPath, n) : n \in {0, 1, 3, 5, 6} }
      \cup { ByPath(ColonPath, n) : n \in {10, 11} }
      \cup { [NoOverrides EXCEPT !.filePath = DocPath], NoOverrides }

\* the lines at and around the ends of the documents, addressed both ways
BoundaryArgs ==
    { ById(DocPath \o Chars(":0")), ById(DocPath \o Chars(":6")), ById(ColonPath \o Chars(":11")),
      ByPath(DocPath, 0), ByPath(DocPath, 1), ByPath(DocPath, 5), ByPath(DocPath, 6),
      ByPath(ColonPath, 10) }

\* the update_task calls of SpecLine: no override, or a status override
LineUpdateArgs ==
    BoundaryArgs \cup { [ById(DocPath \o Chars(":2")) EXCEPT !.status = st] :
                            st \in {"cancelled", "in_progress"} }
      \cup { [ById(DocPath \o Chars(":2")) EXCEPT
                 !.description = Chars("a") \o <<NL>> \o Chars("b")] }

\* the add_task calls of SpecLine: one without description, one with
LineAddArgs == { a \in SmallAddArgs : a.filePath = DocPath /\ Len(a.description) < 2 /\ a.tags = UndefinedTags }

\* the addresses list_tasks answered
ListedArgs == IF tasks = NotListed THEN {} ELSE { ById(tasks[i].id) : i \in 1..Len(tasks) }

\* the documents SpecQuery starts from
ThreeTasks ==
    Join(<<Chars("- [ ] A ") \o <<GDue>> \o Chars(" 2025-04-01 #work"),
           Chars("- [x] B ") \o <<GDue>> \o Chars(" 2025-04-01 #work"),
           Chars("- [ ] C ") \o <<GDue>> \o Chars(" 2025-06-01 #work")>>, <<NL>>)
MixedTasks ==
    Join(<<Chars("- [/] P #Work ") \o <<GHigh>>,
           Chars("- [-] K ") \o <<GLow, " ", GSched>> \o Chars(" 2025-03-02"),
           Chars("note"),
           Chars("- [X] H ") \o <<GHigh, GHigh, " ", GRec>> \o Chars(" daily ") \o <<GDue, " ">> \o Today,
           Chars("- [?] L ") \o <<GLowest>> \o Chars(" #x #homework ") \o <<GStart>> \o Chars(" 2025-01-01"),
           Chars("* [ ] M ") \o <<GMed>>,
           Chars("+ [ ] N")>>, <<NL>>)
QueryVaults == { File(DocPath, ThreeTasks), File(DocPath, MixedTasks) }

\* the queries SpecQuery sends: one filter of every kind, in several
\* spellings, and queries of several lines
Queries ==
    { Chars("not done"), Chars("done"), Chars("  Not Done "), Chars("DONE"),
      Chars("cancelled"), Chars("in progress"), Chars("not cancelled"),
      Chars("done or cancelled"), Chars("has tags and not done"),
      Chars("tag includes work"), Chars("tag includes #work"), Chars("tag includes #Work"),
      Chars("tag include WORK"), Chars("tag includes home"), Chars("tag includes #"),
      Chars("tag does not include work"), Chars("tag does not include #Work"),
      Chars("tag do not include x"), Chars("has tags"), Chars("no tags"),
      Chars("priority is none"), Chars("priority is highest"), Chars("priority is high"),
      Chars("priority is medium"), Chars("priority is low"), Chars("priority is lowest"),
      Chars("Priority is  High"), Chars("priority is undefined"),
      Chars("due today"), Chars("overdue"), Chars("due after today"), Chars("no due date"),
      Chars("has due date"), Chars("due 2025-04-01"), Chars("due on  2025-06-01"),
      Chars("due before 2025-05-01"), Chars("due after 2025-05-01"),
      Chars("scheduled today"), Chars("scheduled before today"), Chars("no scheduled date"),
      Chars("has scheduled date"), Chars("starts today"), Chars("starts before today"),
      Chars("no start date"), Chars("has start date"),
      Chars("path includes F.MD"), Chars("path does not include f"),
      Chars("description includes daily"), Chars("description does not include A"),
      Chars("is recurring"), Chars("is not recurring"), Chars("h"),
      <<>>, Chars("# done"), <<NL>> \o Chars("  ") \o <<NL>>,
      Chars("not done") \o <<NL>> \o Chars("due before 2025-05-01") \o <<NL>>
          \o Chars("tag includes #work"),
      Chars("# open") \o <<NL, NL>> \o Chars(" not done ") \o <<NL>> \o Chars("#done"),
      Chars("done") \o <<NL>> \o Chars("not done"),
      Chars("has tags") \o <<NL>> \o Chars("priority is none") }

\* the query_tasks calls of SpecQuery
QueryArgs ==
    { [query |-> q, filePath |-> Undefined] : q \in Queries }
      \cup { [query |-> Undefined, filePath |-> Undefined],
             [query |-> Chars("done"), filePath |-> DocPath],
             [query |-> Chars("done"), filePath |-> Chars("g.md")] }

\* the filters SpecFilter combines
Leaves == {Chars("done"), Chars("cancelled"), Chars("has tags")}

\* the filter texts  a and b or c,  not a and b,  not a or b,  a or b
AndOr(a, b, c) == a \o Chars(" and ") \o b \o Chars(" or ") \o c
NotAnd(a, b) == Chars("not ") \o a \o Chars(" and ") \o b
NotOr(a, b) == Chars("not ") \o a \o Chars(" or ") \o b
Or(a, b) == a \o Chars(" or ") \o b

\* the predicates SpecFilter negates: leaves, and texts holding a combinator
Negated ==
    Leaves \cup {Chars("not done"), Chars("Cancelled "), Chars("tag includes work"),
                 Chars("due before tomorrow"), Chars("note"), Chars("has tags and done"),
                 Chars("has tags or done"), Chars("and note")}

\* texts that are no filter form, and one with a filter's prefix and an
\* argument the filter does not know
Malformed == {Chars("due before tomorrow"), Chars("Due before 2025-5-1"), Chars("tag includes"),
              Chars("scheduled tomorrow"), Chars(" NOTE "), Chars("priority"), Chars("notdone")}
UnknownPriority == Chars("priority is urgent")

\* the filters SpecFilter sends, one per query
FilterTexts ==
    { AndOr(a, b, c) : a \in Leaves, b \in Leaves, c \in Leaves }
      \cup { NotAnd(a, b) : a \in Leaves, b \in Leaves }
      \cup { NotOr(a, b) : a \in Leaves, b \in Leaves }
      \cup { Or(a, b) : a \in Leaves, b \in Leaves }
      \cup { Chars("not ") \o x : x \in Negated }
      \cup Malformed \cup {UnknownPriority}

\* the task lines SpecFilter starts from, one per document
FilterTasks ==
    { Chars("- [ ] a"), Chars("- [ ] note #work"), Chars("- [x] b"), Chars("- [x] c #Work"),
      Chars("- [-] d"), Chars("- [-] and note #x"), Chars("- [/] e #homework"),
      Chars("- [ ] Due before tomorrow, Priority is urgent, Scheduled tomorrow") }

\* the lines SpecParse reads: every combination of these pieces
ParseIndents == {<<>>, <<" ", ">", " ">>}
ParseMarkers == {<<"-">>, <<"*">>, <<"+">>, <<"1", ".">>, <<"1", "2", ")">>, <<>>}
ParseGaps == {<<>>, <<" ">>, <<" ", " ">>}
ParseBoxes ==
    { <<"[", " ", "]">>, <<"[", "x", "]">>, <<"[", "X", "]">>, <<"[", "-", "]">>,
      <<"[", "/", "]">>, <<"[", "?", "]">>, <<"[", "]">>, <<"[", "x", "y", "]">>, <<>> }
ParseContents ==
    { <<>>,
      <<" ", "a">>,
      <<" ", "a", " ", "b", " ", GDue, " ">> \o D1,
      <<" ", "a", " ", GHigh, " ", GRec, " ">> \o Daily \o <<" ", GStart, " ">> \o D1
          \o <<" ", GSched, " ">> \o D2 \o <<" ", GDue, " ">> \o D1
          \o <<" ", "#", "t", " ", "#", "u">>,
      <<" ", "a", " ", GDue, " ">> \o D1 \o <<" ", GDue, " ">> \o D2,
      <<" ", "a", " ", GCal, GVs, " ">> \o D2 \o <<" ", GDue, " ">> \o D1,
      <<" ", "a", " ", GSched>> \o D1 \o <<" ", GSched, " ">> \o D2
          \o <<" ", GStart, " ">> \o D2 \o <<" ", GStart, " ">> \o D1,
      <<" ", "a", " ", GRec, " ">> \o EveryWeek \o <<" ", GRec, " ">> \o Daily,
      <<" ", "a", " ", GMed, " ", GHigh, GHigh, " ", GLowest>>,
      <<" ", "#", "x", " ", "a", " ", "#", "y", ".", "z", " ", GCreated, " ">> \o D1,
      <<" ", GDue, " ", "2", "0", "2", "5", "-", "1", "-", "1", " ", "a", " ", GDue, " ">> \o D2 }

ParseInputs ==
    { i \o m \o g \o b \o c :
        i \in ParseIndents, m \in ParseMarkers, g \in ParseGaps,
        b \in ParseBoxes, c \in ParseContents }

(***************************************************************************)
(* Specifications                                                          *)
(***************************************************************************)
MaxCalls == 2       \* tools/call requests of one run of Spec

\* no request is suspended and the plugin has not been loaded: class fields
\* as declared (server: http.Server | null = null)
InitPlugin ==
    /\ inflight = <<>>
    /\ server = 0
    /\ servers = <<>>
    /\ timer = FALSE
    /\ lifecycle = "new"

InitCommon ==
    /\ call = NoCall
    /\ resp = NoResponse
    /\ tasks = NotListed
    /\ written = {}
    /\ nCalls = 0
    /\ tasksApi = FALSE
    /\ InitPlugin

\* Spec: add_task and update_task calls on one document
Init ==
    /\ vault \in InitVaults
    /\ InitCommon

Next ==
    \/ \E a \in SmallAddArgs : nCalls < MaxCalls /\ add_task(a)
    \/ \E a \in UpdateArgs : nCalls < MaxCalls /\ update_task(a)

Spec == Init /\ [][Next]_vars

\* SpecLine: toggle_task, update_task and remove_task calls on the lines of
\* two documents, addressed by hand or by what list_tasks answered
InitLine ==
    /\ vault = LineVault
    /\ call = NoCall
    /\ resp = NoResponse
    /\ tasks = NotListed
    /\ written = {}
    /\ nCalls = 0
    /\ tasksApi \in BOOLEAN
    /\ InitPlugin

NextLine ==
    \/ \E a \in LineArgs \cup ListedArgs : nCalls < MaxCalls /\ toggle_task(a)
    \/ \E a \in LineUpdateArgs : nCalls < MaxCalls /\ update_task(a)
    \/ \E a \in BoundaryArgs : nCalls < MaxCalls /\ remove_task(a)
    \/ \E a \in LineAddArgs : nCalls < MaxCalls /\ add_task(a)
    \/ \E fp \in {Undefined, DocPath} : list_tasks(fp)

SpecLine == InitLine /\ [][NextLine]_vars

\* SpecQuery: query_tasks calls on a document of tasks, and toggle_task calls
\* that change the tasks between them
InitQuery ==
    /\ vault \in QueryVaults
    /\ InitCommon

NextQuery ==
    \/ \E a \in QueryArgs : nCalls < MaxCalls /\ query_tasks(a)
    \/ \E n \in {1, 2, 3} : nCalls < MaxCalls /\ toggle_task(ByPath(DocPath, n))
    \/ \E d \in {Chars("2025-04-01"), Chars("2025-06-01"), Today} : \E o \in BOOLEAN :
          nCalls < MaxCalls /\ get_tasks_by_date([date |-> d, includeOverdue |-> o])

SpecQuery == InitQuery /\ [][NextQuery]_vars

\* SpecFilter: query_tasks calls of one filter on a document of one task
InitFilter ==
    /\ vault \in { File(DocPath, line) : line \in FilterTasks }
    /\ InitCommon

NextFilter ==
    \E q \in FilterTexts :
        nCalls < MaxCalls /\ query_tasks([query |-> q, filePath |-> Undefined])

SpecFilter == InitFilter /\ [][NextFilter]_vars

\* SpecAdd: one add_task call, then list_tasks on the file it wrote
InitAdd ==
    /\ vault \in AddVaults
    /\ InitCommon

NextAdd ==
    \/ \E a \in AddArgs : nCalls = 0 /\ add_task(a)
    \/ nCalls > 0 /\ resp.kind = "result" /\ tasks = NotListed /\ list_tasks(resp.filePath)

SpecAdd == InitAdd /\ [][NextAdd]_vars

\* SpecParse: list_tasks on a document of one line
InitParse ==
    /\ \E line \in ParseInputs : vault = File(DocPath, line)
    /\ InitCommon

NextParse ==
    \E filePath \in {Undefined, DocPath} : tasks = NotListed /\ list_tasks(filePath)

SpecParse == InitParse /\ [][NextParse]_vars

\* SpecRace: up to MaxRaceCalls calls on one document of three tasks, each
\* suspended at its awaits while the other runs
RaceUpdateArgs == { [ByPath(DocPath, 1) EXCEPT !.description = <<"n">>],
                    [ByPath(DocPath, 4) EXCEPT !.status = "complete"] }
RaceLineArgs == { ByPath(DocPath, 1), ByPath(DocPath, 3) }

InitRace ==
    /\ vault = File(DocPath, ThreeTasks)
    /\ call = NoCall
    /\ resp = NoResponse
    /\ tasks = NotListed
    /\ written = {}
    /\ nCalls = 0
    /\ tasksApi \in BOOLEAN
    /\ inflight = [s \in Slots |-> Idle]
    /\ server = 0
    /\ servers = <<>>
    /\ timer = FALSE
    /\ lifecycle = "new"

NextRace ==
    \E s \in Slots :
        \/ \E args \in RaceUpdateArgs : ReadUpdate(s, args)
        \/ \E args \in RaceLineArgs : ReadToggle(s, args)
        \/ \E args \in RaceLineArgs : ReadRemove(s, args)
        \/ RereadUpdate(s)
        \/ Write(s)

SpecRace == InitRace /\ [][NextRace]_vars

\* SpecServer: one plugin instance from construction on, with up to
\* MaxServers servers created
InitServer ==
    /\ vault = EmptyVault
    /\ InitCommon

NextServer ==
    \/ \E enableServer \in BOOLEAN : onload(enableServer)
    \/ onunload
    \/ TimerFires
    \/ ToggleCommand
    \/ \E i \in DOMAIN servers : ListenDone(i)
    \/ \E i \in DOMAIN servers : ListenError(i)
    \/ \E i \in DOMAIN servers : ServerError(i)

SpecServer == InitServer /\ [][NextServer]_vars

(***************************************************************************)
(* Properties of the line parser, checked under SpecParse                  *)
(***************************************************************************)
\* the tasks of the last list_tasks response
Listed == tasks # NotListed

\* the text of a task line after its status bracket
Content(line) == From(line, FindChar({"["}, line, 1) + 3)

\* x occurs in s
Occurs(x, s) == \E i \in 1..(Len(s) + 1 - Len(x)) : SubSeq(s, i, i + Len(x) - 1) = x

Min(S) == CHOOSE x \in S : \A y \in S : x <= y

\* the positions of s where a glyph of glyphs starts a date
DateOccurrences(glyphs, s) == {i \in 1..Len(s) : GlyphDateStart(glyphs, s, i) > 0}

\* the date that follows the glyph at position i of s
DateAt(glyphs, s, i) ==
    SubSeq(s, GlyphDateStart(glyphs, s, i), GlyphDateStart(glyphs, s, i) + 9)

\* x is a list marker: a bullet, or digits followed by . or )
IsMarker(x) ==
    \/ x \in {<<"-">>, <<"*">>, <<"+">>}
    \/ /\ Len(x) >= 2
       /\ x[Len(x)] \in {".", ")"}
       /\ \A k \in 1..(Len(x) - 1) : IsDigit(x[k])

\* line is: indentation, a list marker, at least minSpaces spaces, and a
\* bracketed single character, b being the position of the first "["
ShapeAt(line, minSpaces, b) ==
    /\ b > 0
    /\ At(line, b + 1) \notin {EOS, NL}
    /\ At(line, b + 2) = "]"
    /\ \E m \in 0..(b - 1) : \E a \in (m + 1)..(b - 1) :
          /\ \A k \in 1..m : line[k] \in IndentChars
          /\ IsMarker(SubSeq(line, m + 1, a))
          /\ \A k \in (a + 1)..(b - 1) : line[k] = " "
          /\ b - 1 - a >= minSpaces

HasTaskShape(line, minSpaces) == ShapeAt(line, minSpaces, FindChar({"["}, line, 1))

\* d carries no recognized metadata
NoMetadata(d) ==
    /\ MatchDate(DueGlyphs, d) = Undefined
    /\ MatchDate({GSched}, d) = Undefined
    /\ MatchDate({GStart}, d) = Undefined
    /\ MatchDate({GCreated}, d) = Undefined
    /\ MatchRecurrence(d) = Undefined
    /\ MatchPriority(d) = "undefined"
    /\ MatchHashTags(d, 1) = <<>>

\* C3 as stated: the description of every parsed task carries no recognized
\* metadata (no dated glyph, no recurrence, no priority glyph, no #tag)
C3_DescriptionStripped ==
    Listed => \A i \in DOMAIN tasks : NoMetadata(tasks[i].description)

\* the description is the text after the bracket, and what the parser
\* extracted from it is still in it
DescriptionKeepsAll(t) ==
    /\ t.description = Trim(Content(t.originalMarkdown))
    /\ t.dueDate # Undefined => Occurs(t.dueDate, t.description)
    /\ t.scheduledDate # Undefined => Occurs(t.scheduledDate, t.description)
    /\ t.startDate # Undefined => Occurs(t.startDate, t.description)
    /\ t.createdDate # Undefined => Occurs(t.createdDate, t.description)
    /\ t.recurrence # Undefined => Occurs(<<GRec>>, t.description)
    /\ t.priority # "undefined" => \E g \in PriorityGlyphs : Occurs(<<g>>, t.description)
    /\ \A k \in DOMAIN t.tags : Occurs(t.tags[k], t.description)

\* C3 amended: the description of every parsed task is the whole text after
\* the status bracket, trimmed, with every metadata marker and tag left in it
C3_DescriptionIsContent ==
    Listed => \A i \in DOMAIN tasks : DescriptionKeepsAll(tasks[i])

\* a parsed task with a due date, whose description still shows the glyph
C3_Witness ==
    /\ Listed
    /\ \E i \in DOMAIN tasks :
          /\ tasks[i].dueDate # Undefined
          /\ tasks[i].tags # <<>>
          /\ Occurs(<<GDue>>, tasks[i].description)

\* the mapping of status characters to statuses
StatusFromSymbol(c) ==
    CASE c = " " -> "incomplete"
      [] c \in {"x", "X"} -> "complete"
      [] c = "-" -> "cancelled"
      [] c = "/" -> "in_progress"
      [] OTHER -> "incomplete"

\* the character between the brackets of a task line
BracketChar(line) == line[FindChar({"["}, line, 1) + 1]

\* C4: the status of every parsed task is the image of its statusSymbol
\* under the fixed mapping, and statusSymbol is the character in the bracket
C4_StatusFromSymbol ==
    Listed => \A i \in DOMAIN tasks :
        /\ tasks[i].status = StatusFromSymbol(tasks[i].statusSymbol)
        /\ tasks[i].statusSymbol = BracketChar(tasks[i].originalMarkdown)

\* a parsed task whose bracket holds the capital X
C4_Witness ==
    /\ Listed
    /\ \E i \in DOMAIN tasks :
          tasks[i].statusSymbol = "X" /\ tasks[i].status = "complete"

\* the line SpecParse parses
ParsedLine == vault[DocPath]

\* C5 as stated: parsing answers null exactly when the line does not start
\* with indentation, a list marker and, after any number of spaces (none
\* included), a bracketed single character; a task it answers is of that line
C5_NullIffNoMarkerAndBox ==
    Listed =>
        /\ (tasks = <<>>) <=> ~HasTaskShape(ParsedLine, 0)
        /\ \A i \in DOMAIN tasks : tasks[i].originalMarkdown = ParsedLine

\* C5 amended: the same with one or more spaces between marker and bracket
C5_NullIffNoMarkerSpaceBox ==
    Listed =>
        /\ (tasks = <<>>) <=> ~HasTaskShape(ParsedLine, 1)
        /\ \A i \in DOMAIN tasks : tasks[i].originalMarkdown = ParsedLine

\* a line with a marker and a box but no space between them, answered null
C5_Witness ==
    /\ Listed
    /\ tasks = <<>>
    /\ HasTaskShape(ParsedLine, 0)

\* the priority a glyph at position i of s stands for
PriorityAt(s, i) ==
    CASE s[i] = GHigh /\ At(s, i + 1) = GHigh -> "highest"
      [] s[i] = GHigh /\ At(s, i + 1) # GHigh -> "high"
      [] s[i] = GMed -> "medium"
      [] s[i] = GLow -> "low"
      [] s[i] = GLowest -> "lowest"

\* d is the date of the leftmost dated glyph of glyphs in s, Undefined if none
IsLeftmostDate(d, glyphs, s) ==
    IF DateOccurrences(glyphs, s) = {} THEN d = Undefined
    ELSE d = DateAt(glyphs, s, Min(DateOccurrences(glyphs, s)))

\* the positions of s that hold a character of cs
Positions(cs, s) == {i \in 1..Len(s) : s[i] \in cs}

\* r is the word that follows the leftmost repeat glyph of s
IsLeftmostRecurrence(r, s) ==
    IF Positions({GRec}, s) = {} THEN r = Undefined
    ELSE \E j \in {Min(Positions({GRec}, s)) + 1, Min(Positions({GRec}, s)) + 2} :
            /\ j = Min(Positions({GRec}, s)) + 2 <=> IsSpace(At(s, j - 1))
            /\ j + Len(r) - 1 <= Len(s)
            /\ r = SubSeq(s, j, j + Len(r) - 1)
            /\ \A k \in 1..Len(r) : ~IsSpace(r[k])
            /\ At(s, j + Len(r)) \in {" ", TAB, EOS}

\* p is the priority of the leftmost priority glyph of s
IsLeftmostPriority(p, s) ==
    IF Positions(PriorityGlyphs, s) = {} THEN p = "undefined"
    ELSE p = PriorityAt(s, Min(Positions(PriorityGlyphs, s)))

FirstMatches(t, s) ==
    /\ IsLeftmostDate(t.dueDate, DueGlyphs, s)
    /\ IsLeftmostDate(t.scheduledDate, {GSched}, s)
    /\ IsLeftmostDate(t.startDate, {GStart}, s)
    /\ IsLeftmostDate(t.createdDate, {GCreated}, s)
    /\ IsLeftmostRecurrence(t.recurrence, s)
    /\ IsLeftmostPriority(t.priority, s)

\* C6: every category of a parsed task carries the value of the leftmost
\* occurrence of that category in the text of the line
C6_FirstMatchWins ==
    Listed => \A i \in DOMAIN tasks :
        FirstMatches(tasks[i], Content(tasks[i].originalMarkdown))

\* a line with two due dates that differ, parsed
C6_Witness ==
    /\ Listed
    /\ \E i \in DOMAIN tasks :
          \E a, b \in DateOccurrences(DueGlyphs, tasks[i].description) :
              /\ a < b
              /\ DateAt(DueGlyphs, tasks[i].description, a)
                   # DateAt(DueGlyphs, tasks[i].description, b)
              /\ tasks[i].dueDate = DateAt(DueGlyphs, tasks[i].description, a)

(***************************************************************************)
(* Properties of the builder and the parser together, checked under SpecAdd *)
(***************************************************************************)
\* the task list_tasks reports for the line add_task appended: the last one
AddedTask == tasks[Len(tasks)]

\* add_task has answered with a result and list_tasks has read the file
AddedAndListed == Listed /\ call.name = "add_task" /\ resp.kind = "result"

\* r is absent or a single token free of white space
SingleToken(r) == r = Undefined \/ \A k \in DOMAIN r : ~IsSpace(r[k])

\* the tags of F as a parsed task shows them: each with its '#' prefix
WithHash(tags) ==
    IF tags = UndefinedTags THEN <<>>
    ELSE [k \in DOMAIN tags |->
            IF tags[k][1] = "#" THEN tags[k] ELSE <<"#">> \o tags[k]]

\* the metadata fields of task t equal those of the field set F
SameMetadata(t, F) ==
    /\ t.dueDate = F.dueDate
    /\ t.scheduledDate = F.scheduledDate
    /\ t.startDate = F.startDate
    /\ t.priority = F.priority
    /\ t.recurrence = F.recurrence
    /\ t.tags = WithHash(F.tags)
    /\ t.status = "incomplete"
    /\ t.statusSymbol = " "

\* C1 as stated: parsing the line built from F gives back the description
\* and every metadata field of F (recurrence a single token), status incomplete
C1_RoundTrip ==
    (AddedAndListed /\ SingleToken(call.args.recurrence)) =>
        /\ AddedTask.originalMarkdown = resp.task
        /\ SameMetadata(AddedTask, call.args)
        /\ AddedTask.description = call.args.description

\* s begins with x
StartsWith(s, x) == Len(x) <= Len(s) /\ SubSeq(s, 1, Len(x)) = x

\* C1 amended: parsing the line built from F gives back every metadata field
\* of F (recurrence a single token) with status incomplete, and a description
\* that is the whole text after the bracket: the description of F followed
\* by the metadata the builder appended
C1_RoundTripMetadata ==
    (AddedAndListed /\ SingleToken(call.args.recurrence)) =>
        /\ AddedTask.originalMarkdown = resp.task
        /\ SameMetadata(AddedTask, call.args)
        /\ AddedTask.description = Trim(Content(resp.task))
        /\ StartsWith(AddedTask.description, call.args.description)

\* a line built from a field set with every field present, parsed again
C1_Witness ==
    /\ AddedAndListed
    /\ call.args.dueDate = D1 /\ call.args.scheduledDate = D2
    /\ call.args.startDate = D1 /\ call.args.priority = "highest"
    /\ call.args.recurrence = Daily
    /\ call.args.tags = << <<"#", "t">>, <<"u">> >>
    /\ AddedTask.tags = << <<"#", "t">>, <<"#", "u">> >>
    /\ AddedTask.description # call.args.description

(***************************************************************************)
(* Properties of add_task and update_task, checked under Spec              *)
(***************************************************************************)
\* the last call was `name` and it was answered with a result
Answered(name) == call.name = name /\ resp.kind = "result"

\* the task on the line the last update_task replaced, and on the line it wrote
OldTask == parseTaskLine(resp.oldTask, resp.filePath, resp.lineNumber)
NewTask == parseTaskLine(resp.newTask, resp.filePath, resp.lineNumber)

\* args overrides no field of the task
NoFieldOverride(args) ==
    /\ args.description = Undefined /\ args.status = "undefined"
    /\ args.dueDate = Undefined /\ args.scheduledDate = Undefined
    /\ args.startDate = Undefined /\ args.priority = "undefined"
    /\ args.tags = UndefinedTags /\ args.recurrence = Undefined

\* C2 as stated: update_task without overrides, on a line that add_task or an
\* earlier update_task wrote, writes back the very same line
C2_UpdateIdempotent ==
    (Answered("update_task") /\ NoFieldOverride(call.args) /\ resp.oldTask \in written)
        => resp.newTask = resp.oldTask

\* an optional string field carries a value
Present(x) == x # Undefined /\ x # <<>>

\* what a field contributes to a line: nothing when absent, else a space,
\* the glyph, a space and the value
Segment(glyph, x) == IF Present(x) THEN <<" ", glyph, " ">> \o x ELSE <<>>

\* what a priority contributes
PrioritySegment(p) ==
    CASE p = "highest" -> <<" ", GHigh, GHigh>>
      [] p = "high" -> <<" ", GHigh>>
      [] p = "medium" -> <<" ", GMed>>
      [] p = "low" -> <<" ", GLow>>
      [] p = "lowest" -> <<" ", GLowest>>
      [] OTHER -> <<>>

RECURSIVE TagsSegment(_)
\* what the tags contribute: each one after a space, with its '#'
TagsSegment(tags) ==
    IF tags = UndefinedTags \/ tags = <<>> THEN <<>>
    ELSE <<" ">> \o WithHash(<<Head(tags)>>)[1] \o TagsSegment(Tail(tags))

\* the optional fields of F in the canonical order
CanonicalTail(F) ==
    PrioritySegment(F.priority) \o Segment(GRec, F.recurrence)
        \o Segment(GStart, F.startDate) \o Segment(GSched, F.scheduledDate)
        \o Segment(GDue, F.dueDate) \o TagsSegment(F.tags)

\* the value of a field after an update: the one given, else the old one
Given(arg, old) == IF arg # Undefined THEN arg ELSE old

\* the fields a line written by update_task is to show
MergedFields(args, old) ==
    [priority |-> IF args.priority # "undefined" THEN args.priority ELSE old.priority,
     recurrence |-> Given(args.recurrence, old.recurrence),
     startDate |-> Given(args.startDate, old.startDate),
     scheduledDate |-> Given(args.scheduledDate, old.scheduledDate),
     dueDate |-> Given(args.dueDate, old.dueDate),
     tags |-> IF args.tags # UndefinedTags THEN args.tags ELSE old.tags]

\* s ends with x
EndsWith(s, x) == Len(x) <= Len(s) /\ SubSeq(s, Len(s) - Len(x) + 1, Len(s)) = x

\* the indentation and the marker of a task line
MarkerPrefix(line) == SubSeq(line, 1, SkipSpacesBack(line, FindChar({"["}, line, 1) - 1))

\* line is: prefix, a space, a bracketed character, a space, a description
\* (the given one, when one is given) and the tail, with nothing in between
HasCanonicalForm(line, prefix, description, tail) ==
    /\ Len(line) >= Len(prefix) + 5 + Len(tail)
    /\ StartsWith(line, prefix \o <<" ", "[">>)
    /\ line[Len(prefix) + 4] = "]"
    /\ line[Len(prefix) + 5] = " "
    /\ EndsWith(line, tail)
    /\ description # Undefined =>
          line = SubSeq(line, 1, Len(prefix) + 5) \o description \o tail

\* C7: a line add_task or update_task writes is the marker, the bracketed
\* status, the description and then the present fields in the order priority,
\* recurrence, start, scheduled, due, tags, each once
C7_CanonicalOrder ==
    /\ Answered("add_task") =>
          resp.task = <<"-", " ", "[", " ", "]", " ">> \o call.args.description
                            \o CanonicalTail(call.args)
    /\ Answered("update_task") =>
          HasCanonicalForm(resp.newTask, MarkerPrefix(resp.oldTask),
                           call.args.description,
                           CanonicalTail(MergedFields(call.args, OldTask)))

\* update_task has written a line that shows all six optional fields
C7_Witness ==
    /\ Answered("update_task")
    /\ NewTask.priority # "undefined" /\ NewTask.recurrence # Undefined
    /\ NewTask.startDate # Undefined /\ NewTask.scheduledDate # Undefined
    /\ NewTask.dueDate # Undefined /\ Len(NewTask.tags) = 2
    /\ resp.newTask # resp.oldTask

\* the text of a description without its metadata
PlainText(t) == StripMetadata(t.description)

\* the fields of new that args does not override equal those of old
OmittedUnchanged(args, old, new) ==
    /\ args.status = "undefined" => new.status = old.status
    /\ args.description = Undefined => PlainText(new) = PlainText(old)
    /\ args.dueDate = Undefined => new.dueDate = old.dueDate
    /\ args.scheduledDate = Undefined => new.scheduledDate = old.scheduledDate
    /\ args.startDate = Undefined => new.startDate = old.startDate
    /\ new.createdDate = old.createdDate
    /\ args.priority = "undefined" => new.priority = old.priority
    /\ args.recurrence = Undefined => new.recurrence = old.recurrence
    /\ args.tags = UndefinedTags => new.tags = old.tags

\* C8 as stated: after update_task, every field the call did not override
\* parses from the new line to the value it had on the old line
C8_OmittedUnchanged ==
    Answered("update_task") => OmittedUnchanged(call.args, OldTask, NewTask)

\* the field of the new line for which x was given: absent for the empty
\* string, else x
Replaced(x, new) == x # Undefined => new = (IF x = <<>> THEN Undefined ELSE x)

\* C9 as stated: after update_task, a date or recurrence given as the empty
\* string and a priority given as 'none' parse as absent from the new line,
\* and a field given a value parses to that value
C9_RemovedOrReplaced ==
    Answered("update_task") =>
        /\ Replaced(call.args.dueDate, NewTask.dueDate)
        /\ Replaced(call.args.scheduledDate, NewTask.scheduledDate)
        /\ Replaced(call.args.startDate, NewTask.startDate)
        /\ Replaced(call.args.recurrence, NewTask.recurrence)
        /\ call.args.priority = "none" => NewTask.priority = "undefined"
        /\ call.args.priority \notin {"none", "undefined"} =>
              NewTask.priority = call.args.priority

\* C10: the tags of a line update_task wrote for a call that gives tags are
\* the given ones in order, each with its '#', and none of the old line; the
\* tags of a line add_task wrote are the given ones, each with its '#'
C10_TagsReplace ==
    /\ (Answered("update_task") /\ call.args.tags # UndefinedTags) =>
          NewTask.tags = WithHash(call.args.tags)
    /\ Answered("add_task") =>
          parseTaskLine(resp.task, resp.filePath, 1).tags = WithHash(call.args.tags)

\* update_task has replaced the tags of a line that had other tags
C10_Witness ==
    /\ Answered("update_task")
    /\ call.args.tags = << <<"v">>, <<"#", "w">> >>
    /\ OldTask.tags # <<>>
    /\ NewTask.tags = << <<"#", "v">>, <<"#", "w">> >>

\* the indentation of a task line: its leading white space and '>' characters
LeadingIndent(line) == SubSeq(line, 1, Min({i \in 1..Len(line) : line[i] \notin IndentChars}) - 1)

\* C11: the line update_task writes starts with the indentation and the list
\* marker of the line it replaces, followed by the status bracket
C11_PrefixPreserved ==
    Answered("update_task") =>
        /\ MarkerPrefix(resp.newTask) = MarkerPrefix(resp.oldTask)
        /\ LeadingIndent(resp.newTask) = LeadingIndent(resp.oldTask)
        /\ StartsWith(resp.newTask, MarkerPrefix(resp.oldTask) \o <<" ", "[">>)

\* update_task has rewritten an indented line with a marker other than the dash
C11_Witness ==
    /\ Answered("update_task")
    /\ LeadingIndent(resp.oldTask) = <<" ", " ">>
    /\ MarkerPrefix(resp.oldTask) = <<" ", " ", "*">>
    /\ resp.newTask # resp.oldTask


\* the listed task t decodes to its own document and line
IdDecodes(t) ==
    parseTaskId(t.id) = [error |-> "", filePath |-> t.filePath, lineNumber |-> t.lineNumber]

\* the answer to a call addressed by the identifier of the listed task t
AnsweredAt(t) ==
    IF resp.kind = "result"
    THEN resp.filePath = t.filePath /\ resp.lineNumber = t.lineNumber
    ELSE resp.error \notin {"Invalid task ID format", "Invalid line number in task ID"}

\* C12: the identifier parseTaskLine gives a task decodes to the task's own
\* path and line number, also when the path holds ':', so listed tasks at
\* different places have different identifiers and a call addressed by a
\* listed identifier acts on that place
C12_IdRoundTrip ==
    tasks # NotListed =>
        /\ \A i \in 1..Len(tasks) : IdDecodes(tasks[i])
        /\ \A i, j \in 1..Len(tasks) : tasks[i].id = tasks[j].id => i = j
        /\ \A i \in 1..Len(tasks) :
              (call # NoCall /\ call.name # "add_task" /\ call.args.taskId = tasks[i].id)
                  => AnsweredAt(tasks[i])
C12_Witness ==
    /\ tasks # NotListed
    /\ \E i \in 1..Len(tasks) :
          /\ tasks[i].filePath = ColonPath /\ tasks[i].lineNumber = 10
          /\ call # NoCall /\ call.name # "add_task" /\ call.args.taskId = tasks[i].id
          /\ resp.kind = "result" /\ resp.lineNumber = 10


\* the tools that act on one line of a document
LineTools == {"toggle_task", "update_task", "remove_task"}

\* s is a decimal integer: an optional sign and one or more digits
IsIntegerText(s) ==
    LET d == IF At(s, 1) \in {"+", "-"} THEN Tail(s) ELSE s
    IN  Len(d) > 0 /\ \A i \in 1..Len(d) : IsDigit(d[i])

\* id has a ':' and the segment after its last ':' is an integer
WellFormedId(id) ==
    \E k \in 1..Len(id) :
        /\ id[k] = ":"
        /\ \A j \in (k + 1)..Len(id) : id[j] # ":"
        /\ IsIntegerText(From(id, k + 1))

\* C13: a call addressed by an identifier without ':' or whose segment after
\* the last ':' is not an integer is answered with an error
C13_MalformedIdRejected ==
    (call.name \in LineTools /\ Truthy(call.args.taskId) /\ ~WellFormedId(call.args.taskId))
        => resp.kind = "error"

\* args addresses line n of document p, by identifier or by path and number
Addresses(args, p, n) ==
    \/ args.taskId = p \o <<":">> \o ToDecimal(n)
    \/ ~Truthy(args.taskId) /\ args.filePath = p /\ args.lineNumber = <<n>>

\* the number of lines of a document
LineCount(content) == Len(Split(content, NL))

\* the answer r to a call on line n of a document of lineCount lines
RangeChecked(r, n, lineCount) ==
    IF n \in 1..lineCount
    THEN r \notin {ErrorResponse("Invalid line number"),
                   ErrorResponse("Either taskId or both filePath and lineNumber are required")}
    ELSE n \in {0, lineCount + 1} => r = ErrorResponse("Invalid line number")

\* C14: a toggle_task, update_task or remove_task call on line 0 or on line
\* lineCount + 1 of a document, addressed either way, is answered with the
\* invalid-line-number error, and a call on a line in 1..lineCount is not
C14_LineNumberBoundary ==
    [][(nCalls' = nCalls + 1 /\ call'.name \in LineTools) =>
          \A p \in DOMAIN vault : \A n \in 0..12 :
              Addresses(call'.args, p, n) => RangeChecked(resp', n, LineCount(vault[p]))]_vars


\* new is old with at most the character at position k changed
SameBut(old, new, k) ==
    /\ Len(new) = Len(old)
    /\ \A i \in 1..Len(old) : i # k => new[i] = old[i]

\* C15: without the Tasks API, toggle_task rewrites the line so that only
\* the character inside the status bracket changes, and that one does
C15_MarkerSwapOnly ==
    (Answered("toggle_task") /\ ~tasksApi) =>
        /\ SameBut(resp.oldTask, resp.newTask, FindChar({"["}, resp.oldTask, 1) + 1)
        /\ BracketChar(resp.newTask) # BracketChar(resp.oldTask)


\* C16 as stated: a change of status by toggle_task without the Tasks API
\* is complete to incomplete or incomplete to complete, so a cancelled or
\* in_progress task keeps its status
C16_OnlyCompleteIncomplete ==
    (Answered("toggle_task") /\ ~tasksApi /\ NewTask.status # OldTask.status) =>
        \/ OldTask.status = "complete" /\ NewTask.status = "incomplete"
        \/ OldTask.status = "incomplete" /\ NewTask.status = "complete"

\* a change of status toggle_task makes: complete to incomplete, and every
\* other status to complete
ToggleStep(old, new) ==
    old # new => \/ old = "complete" /\ new = "incomplete"
                 \/ old # "complete" /\ new = "complete"

\* C16 amended: a change of status by toggle_task without the Tasks API is
\* complete to incomplete or any other status to complete; update_task sets
\* the status its override names and keeps the status without an override
C16_ToggleTransitions ==
    /\ (Answered("toggle_task") /\ ~tasksApi) => ToggleStep(OldTask.status, NewTask.status)
    /\ Answered("update_task") =>
          NewTask.status = (IF call.args.status = "undefined" THEN OldTask.status
                            ELSE call.args.status)
C16_Witness ==
    /\ Answered("toggle_task") /\ ~tasksApi
    /\ OldTask.status = "in_progress" /\ NewTask.status = "complete"


\* the tasks of the vault, in the order getAllTasks answers them
AllTasks == getAllTasks(vault, Undefined)

\* the last call was query_tasks over the whole vault with this query text
Queried(text) ==
    /\ call.name = "query_tasks" /\ resp.kind = "result"
    /\ call.args.query = text /\ call.args.filePath = Undefined

\* the answer to the last query holds exactly the tasks of ts that satisfy P
AnswersExactly(ts, P(_)) == \A t \in Range(ts) : (t \in Range(resp.tasks)) <=> P(t)

IsOpen(t) == t.status \in {"incomplete", "in_progress"}
IsComplete(t) == t.status = "complete"

\* C17: 'not done' is true of a task exactly when its status is incomplete or
\* in_progress and 'done' exactly when it is complete, in any spelling of the
\* filter, so a cancelled task satisfies neither; query_tasks answers so
C17_StatusPredicates ==
    /\ \A t \in Range(AllTasks) :
          /\ applyFilter(t, Chars("not done")) <=> IsOpen(t)
          /\ applyFilter(t, Chars("done")) <=> IsComplete(t)
          /\ t.status = "cancelled" =>
                ~applyFilter(t, Chars("not done")) /\ ~applyFilter(t, Chars("done"))
    /\ (Queried(Chars("not done")) \/ Queried(Chars("  Not Done "))) =>
          AnswersExactly(AllTasks, IsOpen)
    /\ (Queried(Chars("done")) \/ Queried(Chars("DONE"))) =>
          AnswersExactly(AllTasks, IsComplete)
C17_Witness ==
    /\ Queried(Chars("not done"))
    /\ \E t \in Range(resp.tasks) : t.status = "in_progress"
    /\ \E t \in Range(AllTasks) : t.status = "cancelled" /\ t \notin Range(resp.tasks)
    /\ \E t \in Range(AllTasks) : t.status = "complete" /\ t \notin Range(resp.tasks)

\* the tag texts asked for: plain, with '#', in capitals, part of a tag, absent
TagTexts == {Chars("work"), Chars("#work"), Chars("#Work"), Chars("WORK"), Chars("home"),
             Chars("x"), Chars("#"), Chars("z")}

\* s lower-cased and without its leading '#'
Bare(s) == ToLowerCase(IF Len(s) > 0 /\ s[1] = "#" THEN Tail(s) ELSE s)

\* some tag of t, lower-cased and without '#', contains the text x likewise
HasTagWith(t, x) == \E i \in 1..Len(t.tags) : Occurs(Bare(x), Bare(t.tags[i]))

\* C18: 'tag includes X' is true of a task exactly when one of its tags,
\* without '#' and lower-cased, contains X without '#' and lower-cased, and
\* 'tag does not include X' is true exactly when that is false
C18_TagPredicates ==
    \A t \in Range(AllTasks) : \A x \in TagTexts :
        /\ applyFilter(t, Chars("tag includes ") \o x) <=> HasTagWith(t, x)
        /\ applyFilter(t, Chars("tag does not include ") \o x) <=> ~HasTagWith(t, x)
C18_Witness ==
    /\ Queried(Chars("tag includes work"))
    /\ \E t \in Range(resp.tasks) : t.tags = << Chars("#Work") >>
    /\ \E t \in Range(resp.tasks) : Chars("#homework") \in Range(t.tags)
    /\ \E t \in Range(AllTasks) : t \notin Range(resp.tasks)

Priorities == {"highest", "high", "medium", "low", "lowest"}

\* the 'priority is ...' filters a task satisfies
PrioritiesOf(t) ==
    { p \in Priorities \cup {"none"} : applyFilter(t, Chars("priority is ") \o Chars(p)) }

\* C19: 'priority is none' is true exactly of the tasks without a priority
\* marker and 'priority is P' exactly of those whose parsed priority is P, so
\* every task satisfies one of the six and no other
C19_PriorityPredicates ==
    \A t \in Range(AllTasks) :
        PrioritiesOf(t) = {IF t.priority = "undefined" THEN "none" ELSE t.priority}
C19_Witness ==
    /\ Queried(Chars("priority is none"))
    /\ \E t \in Range(resp.tasks) : t.priority = "undefined"
    /\ \E t \in Range(AllTasks) : t.priority = "highest" /\ t \notin Range(resp.tasks)
    /\ \E t \in Range(AllTasks) : t.priority = "low" /\ t \notin Range(resp.tasks)

\* the lines of a query that are filters: not blank and not starting with '#'
FilterLines(text) ==
    { Trim(l) : l \in { m \in Range(Split(text, NL)) : Trim(m) # <<>> /\ Trim(m)[1] # "#" } }

\* the positions of the tasks of ts of which every filter line is true
Kept(ts, text) == { i \in 1..Len(ts) : \A l \in FilterLines(text) : applyFilter(ts[i], l) }

\* out is ts restricted to the positions K, in the order of ts
SubSequenceAt(out, ts, K) ==
    /\ Len(out) = Cardinality(K)
    /\ \A k \in 1..Len(out) :
          \E i \in K : out[k] = ts[i] /\ Cardinality({j \in K : j < i}) = k - 1

\* C20: query_tasks answers the tasks of which every line of the query that
\* is neither blank nor starts with '#' is true, in the order they were
\* read, nothing added; a query without such a line answers every task
C20_StableConjunctiveFilter ==
    (call.name = "query_tasks" /\ resp.kind = "result") =>
        /\ SubSequenceAt(resp.tasks, getAllTasks(vault, call.args.filePath),
                         Kept(getAllTasks(vault, call.args.filePath), call.args.query))
        /\ FilterLines(call.args.query) = {} =>
              resp.tasks = getAllTasks(vault, call.args.filePath)
C20_Witness ==
    /\ Queried(Chars("not done") \o <<NL>> \o Chars("due before 2025-05-01") \o <<NL>>
                 \o Chars("tag includes #work"))
    /\ Len(AllTasks) = 3
    /\ resp.tasks = << AllTasks[1] >>
    /\ AllTasks[1].description = Chars("A ") \o <<GDue>> \o Chars(" 2025-04-01 #work")


\* the one task of the document of SpecFilter, and whether filter x is true of it
TheTask == AllTasks[1]
Holds(x) == applyFilter(TheTask, x)

\* the last query was x, and the answer holds the task
Asked(x) == call.name = "query_tasks" /\ call.args.query = x /\ resp.kind = "result"
Taken == Len(resp.tasks) = 1

\* C21: a line holding ' and ' is the conjunction of its pieces between the
\* ' and ', a line holding ' or ' and no ' and ' the disjunction of its
\* pieces: a and b or c  is  a and (b or c),  not a and b  is  (not a) and b
C21_AndBeforeOrBeforeNot ==
    \A a, b \in Leaves :
        /\ \A c \in Leaves :
              Asked(AndOr(a, b, c)) => (Taken <=> (Holds(a) /\ (Holds(b) \/ Holds(c))))
        /\ Asked(NotAnd(a, b)) => (Taken <=> (Holds(Chars("not ") \o a) /\ Holds(b)))
        /\ Asked(NotOr(a, b)) => (Taken <=> (Holds(Chars("not ") \o a) \/ Holds(b)))
        /\ Asked(Or(a, b)) => (Taken <=> (Holds(a) \/ Holds(b)))
C21_Witness ==
    /\ Asked(AndOr(Chars("has tags"), Chars("done"), Chars("cancelled")))
    /\ TheTask.status = "cancelled" /\ Len(TheTask.tags) = 0 /\ ~Taken

\* x, lower-cased and trimmed, is the filter done
IsDoneText(x) == Trim(ToLowerCase(x)) = Chars("done")

\* C22 as stated: for every predicate X other than done, 'not X' is true of a
\* task exactly when X is false of it
C22_NotNegatesAny ==
    \A x \in Negated :
        (Asked(Chars("not ") \o x) /\ ~IsDoneText(x)) => (Taken <=> ~Holds(x))

\* 'not x' holds a combinator
Combined(x) ==
    Occurs(Chars(" and "), Chars("not ") \o x) \/ Occurs(Chars(" or "), Chars("not ") \o x)

\* C22 amended: for every non-blank predicate X other than done such that the
\* line 'not X' holds neither ' and ' nor ' or ', 'not X' is true of a task
\* exactly when X is false of it; 'not done' is a status leaf that differs
\* from the negation of 'done' on cancelled tasks
C22_NotNegatesLeaf ==
    /\ \A x \in Negated :
          (Asked(Chars("not ") \o x) /\ ~IsDoneText(x) /\ ~Combined(x))
              => (Taken <=> ~Holds(x))
    /\ (call # NoCall /\ TheTask.status = "cancelled") =>
          ~Holds(Chars("not done")) /\ ~Holds(Chars("done"))
C22_Witness ==
    /\ Asked(Chars("not has tags")) /\ Taken /\ TheTask.status = "cancelled"

\* the description of the task holds x, lower-cased and trimmed, whatever the case
DescriptionHolds(x) == Occurs(Trim(ToLowerCase(x)), ToLowerCase(TheTask.description))

\* C23 as stated: a text that is no documented filter form, a documented
\* prefix with a malformed argument included, is true of a task exactly when
\* the description holds the text, whatever the case
C23_MalformedFallsBack ==
    \A x \in Malformed \cup {UnknownPriority} : Asked(x) => (Taken <=> DescriptionHolds(x))

\* C23 amended: every query is answered with a result; a text that is none
\* of the keyword filters, matches none of the date patterns and starts with
\* none of the filter prefixes is true of a task exactly when the description
\* holds the text, whatever the case; 'priority is' with an unknown name
\* stays a priority filter and is true of no task
C23_UnrecognisedFallsBack ==
    /\ call.name = "query_tasks" => resp.kind = "result"
    /\ \A x \in Malformed : Asked(x) => (Taken <=> DescriptionHolds(x))
    /\ Asked(UnknownPriority) => ~Taken
C23_Witness ==
    /\ Asked(Chars("due before tomorrow")) /\ Taken
    /\ Occurs(Chars("Due before tomorrow"), TheTask.description)


\* t is due on the date, before it
DueOn(t, date) == t.dueDate = date
DueBefore(t, date) == t.dueDate # Undefined /\ t.dueDate # date /\ LessThan(t.dueDate, date)

\* the tasks of ts in the answer are those due on the date
ExactlyDueOn(ts, date) == \A t \in Range(ts) : (t \in Range(resp.tasks)) <=> DueOn(t, date)

\* the answer holds every task of ts due on the date, every open task of ts
\* due before it, and no task due later or without a due date
DueOnAndOverdue(ts, date) ==
    \A t \in Range(ts) :
        /\ DueOn(t, date) => t \in Range(resp.tasks)
        /\ (DueBefore(t, date) /\ IsOpen(t)) => t \in Range(resp.tasks)
        /\ t \in Range(resp.tasks) => DueOn(t, date) \/ DueBefore(t, date)

\* C24: get_tasks_by_date without includeOverdue answers exactly the tasks
\* due on the date; with includeOverdue it answers all of those and the
\* overdue tasks as well
C24_OverdueAddsToDate ==
    call.name = "get_tasks_by_date" =>
        IF call.args.includeOverdue
        THEN DueOnAndOverdue(AllTasks, call.args.date)
        ELSE ExactlyDueOn(AllTasks, call.args.date)


\* C25: a toggle_task, update_task, remove_task or add_task call answered
\* with an error leaves the content of every document as it was
C25_ErrorChangesNothing ==
    [][(nCalls' = nCalls + 1 /\ call'.name \in LineTools \cup {"add_task"}
          /\ resp'.kind = "error") => vault' = vault]_vars
C25_Witness ==
    /\ call.name = "update_task" /\ resp = ErrorResponse("No task found")
    /\ nCalls = 2 /\ written = {} /\ vault = LineVault

\* the step is a successful call of one of the tools
Succeeds(names) == nCalls' = nCalls + 1 /\ call'.name \in names /\ resp'.kind = "result"

\* the lines of two contents are the same in number and equal except line n
SameExceptLine(before, after, n) ==
    /\ Len(after) = Len(before)
    /\ \A i \in 1..Len(before) : i # n => after[i] = before[i]

\* C26 as stated: a successful update_task or toggle_task keeps the number
\* of lines of the document and every line other than the addressed one
C26_SameLineCount ==
    [][Succeeds({"update_task", "toggle_task"}) =>
          SameExceptLine(Split(vault[resp'.filePath], NL),
                         Split(vault'[resp'.filePath], NL), resp'.lineNumber)]_vars

\* after is before with line n replaced by the lines of the text written
ReplacedBy(before, after, n, text) ==
    after = SubSeq(before, 1, n - 1) \o Split(text, NL) \o SubSeq(before, n + 1, Len(before))

\* C26 amended: a successful update_task or toggle_task replaces the
\* addressed line by the newTask it reports and keeps every other line and
\* every other document; when newTask holds no line break, as always for
\* toggle_task without the Tasks API, the number of lines is kept
C26_OnlyAddressedLine ==
    [][Succeeds({"update_task", "toggle_task"}) =>
          /\ \A p \in DOMAIN vault' : p # resp'.filePath => (p \in DOMAIN vault /\ vault'[p] = vault[p])
          /\ ReplacedBy(Split(vault[resp'.filePath], NL), Split(vault'[resp'.filePath], NL),
                        resp'.lineNumber, resp'.newTask)
          /\ NL \notin Range(resp'.newTask) =>
                SameExceptLine(Split(vault[resp'.filePath], NL),
                               Split(vault'[resp'.filePath], NL), resp'.lineNumber)
          /\ (call'.name = "toggle_task" /\ ~tasksApi) => NL \notin Range(resp'.newTask)]_vars
C26_Witness ==
    /\ Answered("toggle_task") /\ ~tasksApi /\ nCalls = 1
    /\ resp.lineNumber = 2 /\ resp.newTask # resp.oldTask
    /\ Split(vault[DocPath], NL)[2] = resp.newTask
    /\ Split(vault[DocPath], NL)[3] = Chars("  * [-] c [x]")
    /\ Len(Split(vault[DocPath], NL)) = 5

\* C27: the line a successful remove_task removes is a task line
C27_RemovesOnlyTasks ==
    Answered("remove_task") =>
        parseTaskLine(resp.removedTask, resp.filePath, resp.lineNumber) # Null

(***************************************************************************)
(* Properties of interleaved tool calls, checked under SpecRace            *)
(***************************************************************************)
\* the write of the update_task or toggle_task call in slot s takes effect
Lands(s) ==
    /\ inflight[s].pc = "write"
    /\ inflight[s].name \in {"update_task", "toggle_task"}
    /\ inflight'[s] = Idle

\* C28: when the write of an update_task or toggle_task call takes effect,
\* the line it replaces in the file is the line the call read at its start
\* and parsed, the oldTask it reports is that line, and every other line of
\* the file is as it was just before the write: no change another call made
\* in between is lost
C28_NoStaleOverwrite ==
    [][\A s \in Slots : Lands(s) =>
          /\ inflight[s].lineNumber <= Len(Split(vault[inflight[s].filePath], NL))
          /\ Split(vault[inflight[s].filePath], NL)[inflight[s].lineNumber] = inflight[s].line
          /\ resp'.oldTask = inflight[s].line
          /\ ReplacedBy(Split(vault[inflight[s].filePath], NL),
                        Split(vault'[inflight[s].filePath], NL),
                        inflight[s].lineNumber, inflight[s].newTask)]_vars

(***************************************************************************)
(* Properties of the server's life, checked under SpecServer               *)
(***************************************************************************)
\* C29: after onunload the server field is null and no server created by
\* the plugin is listening, in every later state
C29_StoppedAfterUnload ==
    lifecycle = "unloaded" => (server = 0 /\ Listening = {})

\* the servers created and neither closed nor failed
Open == {i \in DOMAIN servers : servers[i] \in {"pending", "listening"}}

\* C30: at most one server created by the plugin is open and none is
\* listening while the server field is null; startServer with a server in
\* the field creates nothing and keeps it, stopServer with null does nothing
C30_AtMostOneServer ==
    /\ [](Cardinality(Open) <= 1)
    /\ [](server = 0 => Listening = {})
    /\ [][(timer /\ ~timer' /\ server # 0) => (server' = server /\ servers' = servers)]_vars
    /\ [][(lifecycle = "loaded" /\ lifecycle' = "unloaded" /\ server = 0) =>
             (server' = 0 /\ servers' = servers)]_vars

====
